---------------------------- MODULE Spec2Model ----------------------------
(***************************************************************************)
(* The Python runtime of wedmake (src/src/py_runtime.py) run by N worker   *)
(* threads (src/src/metabase.py, run_local) over one experiment instance:  *)
(* the shared state, the coordination lock _ei_lock, the per-variable      *)
(* locks, the list of recorded exceptions, and every worker's position in  *)
(* PyExperimentInstance.run and the methods it calls.                      *)
(* A second specification, GuardSpec, builds one guard (Guard.__init__ of  *)
(* src/src/wedmakefile_parser.py) and evaluates it on one state, with no   *)
(* instance running.                                                       *)
(*                                                                         *)
(* A value is a sequence of tokens.  A token is one character, or a run of *)
(* ordinary characters written as one token ("init").  The two characters  *)
(* the argument passing treats specially, the comma and the backslash, are *)
(* always tokens of their own.                                             *)
(***************************************************************************)
EXTENDS Integers, Sequences, FiniteSets, TLC

VARIABLES
    experiment,      \* the name of the experiment (WED-Makefile and configuration) run
    n_threads,       \* n_threads of run_local: the number of workers started
    created,         \* PyExperimentInstance.__init__ returned without raising
    state,           \* self._state: [value, permission], functions of the bound identifiers
    ei_lock,         \* PyExperimentInstance._ei_lock: the worker holding it, or Free
    variable_locks,  \* self._variable_locks: identifier -> the worker holding it, or Free
    exceptions,      \* self._exceptions
    pc,              \* each worker's position in run() and its callees
    probe,           \* which of the three @CSDecorator methods the worker is in
    at,              \* which call of is_in_final_state: the one of line 486 or of line 495
    i,               \* the loop index of the worker's current loop
    res,             \* the value returned by the worker's last @CSDecorator call
    task,            \* the task the worker probes or executes (index in tasks()), or 0
    ready_tasks,     \* the list built by ready_to_execute_tasks
    other_state,     \* other_state of execute_task: the delta of the task's script
    ret,             \* the value returned by run(), once the worker is done
    call             \* a guard built and evaluated on its own: the clauses, the state, the outcome

vars == <<experiment, n_threads, created, state, ei_lock, variable_locks, exceptions,
          pc, probe, at, i, res, task, ready_tasks, other_state, ret, call>>

shared == <<experiment, n_threads, created, state, ei_lock, variable_locks, exceptions, call>>

-----------------------------------------------------------------------------
(* Bounds *)

\* The largest n_threads
NWorkers == 2

Workers == 1..NWorkers

Free == 0

-----------------------------------------------------------------------------
(* Identifiers and values *)

\* The identifiers the experiments use, in the order of Variable.__lt__
\* (lexicographic on the identifier)
IDENTIFIERS == <<"A", "B", "C", "P", "Q", "S", "X", "Y", "Z">>

Ids == {IDENTIFIERS[n] : n \in 1..Len(IDENTIFIERS)}

Range(s) == {s[n] : n \in 1..Len(s)}

\* sorted(set(...)) over Variable: the identifiers of S in ascending order
sorted(S) == SelectSeq(IDENTIFIERS, LAMBDA x : x \in S)

COMMA == ","
BACKSLASH == "\\"

EmptyState == [value |-> <<>>, permission |-> <<>>]

\* No guard is being built or evaluated on its own
NoCall == [pc |-> "none"]

\* dict.get(identifier, "")
Get(st, id) == IF id \in DOMAIN st.value THEN st.value[id] ELSE <<>>

is_readonly(st, id) ==
    (IF id \in DOMAIN st.permission THEN st.permission[id] ELSE "rw") = "ro"

-----------------------------------------------------------------------------
(* The specification model: wedmakefile_parser.py *)

\* A dependency is [kind, var, lit]: kind is "eq", "ne", "in" or "notin"; lit is
\* the literal, and for the two membership kinds the list of literals.
Eq(v, l) == [kind |-> "eq", var |-> v, lit |-> l]
Ne(v, l) == [kind |-> "ne", var |-> v, lit |-> l]
In(v, ls) == [kind |-> "in", var |-> v, lit |-> ls]
NotIn(v, ls) == [kind |-> "notin", var |-> v, lit |-> ls]

\* Guard.validate_dependencies: "if len(dependencies) <= 256: return dependencies",
\* a SyntaxError otherwise
MAX_DEPENDENCIES == 256

validate_dependencies(dependencies) == Len(dependencies) <= MAX_DEPENDENCIES

\* Dependency.on_variable
on_variable(dependency) == dependency.var

\* Guard.on_variables: the sorted list of the dependent variables
on_variables(guard) == sorted({on_variable(guard[n]) : n \in 1..Len(guard)})

\* WEDMakefile.variables: the sorted list of the variables of all the guards
variables(w) ==
    sorted(Range(on_variables(w.initial_guard)) \cup Range(on_variables(w.final_guard))
           \cup UNION {Range(on_variables(w.tasks[n].guard)) : n \in 1..Len(w.tasks)})

\* The value of a Python string literal, given the text between its quotes: two
\* backslashes are one backslash, and a backslash before another character stays
\* with it (the ordinary characters of the model are none of Python's escape
\* letters).  A backslash that ends the text is dropped here: see eval_raises.
RECURSIVE string_from(_, _)
string_from(text, k) ==
    IF k > Len(text) THEN <<>>
    ELSE IF text[k] # BACKSLASH THEN <<text[k]>> \o string_from(text, k + 1)
    ELSE IF k = Len(text) THEN <<>>
    ELSE IF text[k + 1] = BACKSLASH THEN <<BACKSLASH>> \o string_from(text, k + 2)
    ELSE <<BACKSLASH, text[k + 1]>> \o string_from(text, k + 2)

\* The text between the quotes ends with a backslash that escapes nothing before
\* it: it escapes the closing quote
RECURSIVE unterminated_from(_, _)
unterminated_from(text, k) ==
    IF k > Len(text) THEN FALSE
    ELSE IF text[k] # BACKSLASH THEN unterminated_from(text, k + 1)
    ELSE IF k = Len(text) THEN TRUE
    ELSE unterminated_from(text, k + 2)

\* eval(variable_values) raises SyntaxError: a string of the list is not closed
eval_raises(variable_values) ==
    \E n \in 1..Len(variable_values) : unterminated_from(variable_values[n], 1)

\* eval(variable_values) of is_satisfied_by: the list of the values of the
\* string literals of the bracketed list
eval(variable_values) ==
    [n \in 1..Len(variable_values) |-> string_from(variable_values[n], 1)]

\* PyDependency.is_satisfied_by raises instead of returning
raises(dependency) ==
    dependency.kind \in {"in", "notin"} /\ eval_raises(dependency.lit)

\* PyDependency.is_satisfied_by: for "eq" and "ne" lit is the text between the
\* quotes ("[1:-1]"), for "in" and "notin" the texts of the listed literals
is_satisfied_by(dependency, st) ==
    LET value == Get(st, dependency.var)
    IN  CASE dependency.kind = "eq" -> value = dependency.lit
          [] dependency.kind = "ne" -> value # dependency.lit
          [] dependency.kind = "in" -> value \in Range(eval(dependency.lit))
          [] dependency.kind = "notin" -> value \notin Range(eval(dependency.lit))

\* Mutant of Satisfies: the flag is assigned in every turn, so the last
\* dependency decides
Satisfies_last(guard, st) ==
    Len(guard) = 0 \/ is_satisfied_by(guard[Len(guard)], st)

\* "for dependency in guard.dependencies(): if not is_satisfied_by: ..." with all
\* dependencies satisfied
Satisfies(guard, st) == \A n \in 1..Len(guard) : is_satisfied_by(guard[n], st)

-----------------------------------------------------------------------------
(* The state store and the task runner: py_runtime.py *)

\* Mutant of update: a variable the state binds already keeps its value and its
\* permission (setdefault instead of update)
update_setdefault(self, other) ==
    [value |-> self.value @@ other.value,
     permission |-> self.permission @@ other.permission]

\* PyExperimentInstanceState.update
update(self, other) ==
    [value |-> other.value @@ self.value,
     permission |-> other.permission @@ self.permission]

\* arg.replace(",", "\\,"), from the k-th token of arg on
RECURSIVE escape_from(_, _)
escape_from(arg, k) ==
    IF k > Len(arg) THEN <<>>
    ELSE (IF arg[k] = COMMA THEN <<BACKSLASH, COMMA>> ELSE <<arg[k]>>)
         \o escape_from(arg, k + 1)

escape(arg) == escape_from(arg, 1)

\* ','.join(...), from the k-th string on
RECURSIVE join_from(_, _)
join_from(strs, k) ==
    IF k > Len(strs) THEN <<>>
    ELSE IF k = Len(strs) THEN strs[k]
    ELSE strs[k] \o <<COMMA>> \o join_from(strs, k + 1)

join(strs) == join_from(strs, 1)

\* The arguments of the task's script: identifier, value and permission of every
\* variable of the guard, each with its commas escaped
arg_list(ids, st) ==
    [n \in 1..(3 * Len(ids)) |->
        LET id == ids[(n + 2) \div 3]
        IN  CASE n % 3 = 1 -> escape(<<id>>)
              [] n % 3 = 2 -> escape(Get(st, id))
              [] n % 3 = 0 -> escape(<<IF is_readonly(st, id) THEN "ro" ELSE "rw">>)]

\* args=[','.join([...])]
args(guard, st) == join(arg_list(on_variables(guard), st))

\* IFS=, read -a _params <<< "$1", from the k-th token of s on: the fields between
\* the commas, where a backslash is removed and keeps the character after it
\* (read without -r); text after the last comma is a field only if it is not
\* empty
RECURSIVE read_from(_, _, _)
read_from(s, k, field) ==
    IF k > Len(s) THEN (IF field = <<>> THEN <<>> ELSE <<field>>)
    ELSE IF s[k] = BACKSLASH
         THEN IF k = Len(s) THEN read_from(s, k + 1, field)
              ELSE read_from(s, k + 2, Append(field, s[k + 1]))
    ELSE IF s[k] = COMMA THEN <<field>> \o read_from(s, k + 1, <<>>)
    ELSE read_from(s, k + 1, Append(field, s[k]))

read(s) == read_from(s, 1, <<>>)

\* The while loop of function main: the shell's variables rebuilt from _params,
\* three fields each; under set -u a missing field ends the script with an error
main_variables(_params) ==
    LET n == Len(_params) \div 3
        idOf(k) == _params[3 * k - 2]
        ok == /\ Len(_params) % 3 = 0
              /\ \A k \in 1..n : Len(idOf(k)) = 1 /\ idOf(k)[1] \in Ids
        ids == {idOf(k)[1] : k \in 1..n}
        last(id) == CHOOSE k \in 1..n : idOf(k)[1] = id /\ \A m \in 1..n : idOf(m)[1] = id => m <= k
    IN  IF ~ok THEN [ok |-> FALSE, st |-> EmptyState]
        ELSE [ok |-> TRUE,
              st |-> [value |-> [id \in ids |-> _params[3 * last(id) - 1]],
                      permission |-> [id \in ids |->
                          IF _params[3 * last(id)] = <<"ro">> THEN "ro" ELSE "rw"]]]

\* A task's Bash script is [fail, assign]: it ends with an error (fail), or it
\* assigns assign.value[id] to the variables id, readonly where
\* assign.permission[id] = "ro".  Assigning a readonly variable is an error of the
\* shell, which ends the script under set -e.
body(env, bash_script) ==
    IF bash_script.fail \/ \E id \in DOMAIN bash_script.assign.value : is_readonly(env, id)
    THEN [ok |-> FALSE, st |-> EmptyState]
    ELSE [ok |-> TRUE, st |-> update(env, bash_script.assign)]

\* PyExperimentInstanceState.from_bash_script as execute_task calls it: the
\* variables the shell holds after main that it did not hold before, which are
\* the ones rebuilt from the argument and the ones the body assigned.  The capture
\* prints the tokens of a value as they are.  [ok |-> FALSE] is an exception.
\* (Each stage is the one element of a set, which evaluates it once.)
from_bash_script(guard, bash_script, st) ==
    CHOOSE out \in
        {IF ~env.ok THEN env ELSE body(env.st, bash_script) :
            env \in {main_variables(_params) :
                _params \in {read(arg) : arg \in {args(guard, st)}}}} : TRUE

\* Mutant of undeclared: the delta is not validated
undeclared_none(guard, other) == ""

\* Mutant of undeclared: only the first variable of the delta is looked at
undeclared_first(guard, other) ==
    LET ids == sorted(DOMAIN other.value)
    IN  IF ids # <<>> /\ ids[1] \notin Range(on_variables(guard)) THEN ids[1] ELSE ""

\* "for variable_identifier, variable_value in other_state.items(): if
\* Variable(variable_identifier) not in task.guard().on_variables()": the first
\* undeclared variable in the order of the script's output (sorted), or "" if none
undeclared(guard, other) ==
    LET bad == sorted(DOMAIN other.value \ Range(on_variables(guard)))
    IN  IF bad = <<>> THEN "" ELSE bad[1]

-----------------------------------------------------------------------------
(* The experiments and configurations the instance is created from *)

V(x) == <<x>>

\* The configuration file's outcome: PyExperimentInstanceState.from_bash_script
\* with an empty setup
Config(value, permission) == [value |-> value, permission |-> permission]

\* A script that assigns the given values with the given permissions
Assign(value, permission) ==
    [fail |-> FALSE, assign |-> [value |-> value, permission |-> permission]]

\* A script that ends with a non-zero status
Fail == [fail |-> TRUE, assign |-> EmptyState]

Task(name, guard, bash) == [name |-> name, guard |-> guard, bash |-> bash]

\* Linear pipeline: A makes S read-only, B then assigns S
LinearPipeline ==
    [initial_guard |-> <<Eq("S", V("init"))>>,
     final_guard |-> <<Eq("S", V("done"))>>,
     tasks |-> <<Task("A", <<Eq("S", V("init"))>>,
                      {Assign([id \in {"S"} |-> V("mid")], [id \in {"S"} |-> "ro"])}),
                 Task("B", <<Eq("S", V("mid"))>>,
                      {Assign([id \in {"S"} |-> V("done")], [id \in {"S"} |-> "rw"])})>>,
     config |-> Config([id \in {"S"} |-> V("init")], [id \in {"S"} |-> "rw"])]

\* Inconsistent: no task is ever ready and the final guard does not hold
Inconsistent ==
    [initial_guard |-> <<Eq("A", V("1"))>>,
     final_guard |-> <<Eq("A", V("3"))>>,
     tasks |-> <<Task("T", <<Eq("A", V("2"))>>,
                      {Assign([id \in {"A"} |-> V("3")], [id \in {"A"} |-> "rw"])})>>,
     config |-> Config([id \in {"A"} |-> V("1")], [id \in {"A"} |-> "rw"])]

\* Parallel independence: TP on P, TQ on Q; C is bound by the configuration and
\* appears in no guard; P and Q are not bound by the configuration
Parallel ==
    [initial_guard |-> <<Eq("P", <<>>)>>,
     final_guard |-> <<Eq("P", V("p")), In("Q", <<V("q")>>)>>,
     tasks |-> <<Task("TP", <<Ne("P", V("p"))>>,
                      {Assign([id \in {"P"} |-> V("p")], [id \in {"P"} |-> "rw"])}),
                 Task("TQ", <<NotIn("Q", <<V("q")>>)>>,
                      {Assign([id \in {"Q"} |-> V("q")], [id \in {"Q"} |-> "rw"])})>>,
     config |-> Config([id \in {"C"} |-> V("c")], [id \in {"C"} |-> "rw"])]

\* Undeclared mutation: T on {A} also sets B
Undeclared ==
    [initial_guard |-> <<Eq("A", V("1"))>>,
     final_guard |-> <<Eq("A", V("2"))>>,
     tasks |-> <<Task("T", <<Eq("A", V("1"))>>,
                      {Assign([id \in {"A", "B"} |-> IF id = "A" THEN V("2") ELSE V("x")],
                              [id \in {"A", "B"} |-> "rw"])})>>,
     config |-> Config([id \in {"A"} |-> V("1")], [id \in {"A"} |-> "rw"])]

\* A read-only variable whose value holds a backslash, in the guard of a task
\* that assigns another variable
Backslash ==
    [initial_guard |-> <<Eq("A", V("1"))>>,
     final_guard |-> <<Eq("A", V("2"))>>,
     tasks |-> <<Task("T", <<Ne("S", <<>>), Eq("A", V("1"))>>,
                      {Assign([id \in {"A"} |-> V("2")], [id \in {"A"} |-> "rw"])})>>,
     config |-> Config([id \in {"A", "S"} |-> IF id = "A" THEN V("1") ELSE <<"a", BACKSLASH, "b">>],
                       [id \in {"A", "S"} |-> IF id = "A" THEN "rw" ELSE "ro"])]

\* A script that may fail, and two tasks that share the variable B, whose new
\* value holds a comma
Flaky ==
    [initial_guard |-> <<Eq("A", V("1"))>>,
     final_guard |-> <<Eq("A", V("3"))>>,
     tasks |-> <<Task("T", <<Eq("A", V("1")), Ne("B", V("3"))>>,
                      {Fail, Assign([id \in {"A"} |-> V("2")], [id \in {"A"} |-> "rw"])}),
                 Task("TB", <<Eq("B", V("1"))>>,
                      {Assign([id \in {"B"} |-> <<"x", COMMA, "y">>], [id \in {"B"} |-> "rw"])})>>,
     config |-> Config([id \in {"A", "B"} |-> V("1")], [id \in {"A", "B"} |-> "rw"])]

\* The configuration does not satisfy the initial guard
Unsatisfied ==
    [initial_guard |-> <<Eq("A", V("2"))>>,
     final_guard |-> <<Eq("A", V("3"))>>,
     tasks |-> <<Task("T", <<Eq("A", V("2"))>>,
                      {Assign([id \in {"A"} |-> V("3")], [id \in {"A"} |-> "rw"])})>>,
     config |-> Config([id \in {"A"} |-> V("1")], [id \in {"A"} |-> "rw"])]

\* A task whose guard has no dependency ("guard: []"), beside an ordinary task
EmptyGuard ==
    [initial_guard |-> <<Eq("A", V("1"))>>,
     final_guard |-> <<Eq("A", V("2"))>>,
     tasks |-> <<Task("E", <<>>, {Assign(<<>>, <<>>)}),
                 Task("T", <<Eq("A", V("1"))>>,
                      {Assign([id \in {"A"} |-> V("2")], [id \in {"A"} |-> "rw"])})>>,
     config |-> Config([id \in {"A"} |-> V("1")], [id \in {"A"} |-> "rw"])]

\* A task that is ready in a final state and leaves it
Overshoot ==
    [initial_guard |-> <<Eq("A", V("0"))>>,
     final_guard |-> <<Eq("A", V("1"))>>,
     tasks |-> <<Task("T0", <<Eq("A", V("0"))>>,
                      {Assign([id \in {"A"} |-> V("1")], [id \in {"A"} |-> "rw"])}),
                 Task("T1", <<Eq("A", V("1"))>>,
                      {Assign([id \in {"A"} |-> V("2")], [id \in {"A"} |-> "rw"])})>>,
     config |-> Config([id \in {"A"} |-> V("0")], [id \in {"A"} |-> "rw"])]

\* The configuration satisfies the first dependency of the initial guard and
\* neither the second, on a variable it does not bind, nor the third
UnsatisfiedSecond ==
    [initial_guard |-> <<Eq("A", V("1")), In("B", <<V("x"), V("y")>>), Ne("C", <<>>)>>,
     final_guard |-> <<Eq("A", V("2"))>>,
     tasks |-> <<Task("T", <<Eq("A", V("1"))>>,
                      {Assign([id \in {"A"} |-> V("2")], [id \in {"A"} |-> "rw"])})>>,
     config |-> Config([id \in {"A"} |-> V("1")], [id \in {"A"} |-> "rw"])]

\* Diamond: TX, guarded by X, and TY, guarded by Y, both set Z
Diamond ==
    [initial_guard |-> <<Eq("X", V("1"))>>,
     final_guard |-> <<In("Z", <<V("x"), V("y")>>)>>,
     tasks |-> <<Task("TX", <<Eq("X", V("1"))>>,
                      {Assign([id \in {"Z"} |-> V("x")], [id \in {"Z"} |-> "rw"])}),
                 Task("TY", <<Eq("Y", V("1"))>>,
                      {Assign([id \in {"Z"} |-> V("y")], [id \in {"Z"} |-> "rw"])})>>,
     config |-> Config([id \in {"X", "Y", "Z"} |-> IF id = "Z" THEN <<>> ELSE V("1")],
                       [id \in {"X", "Y", "Z"} |-> "rw"])]

Experiments ==
    {"LinearPipeline", "Inconsistent", "Parallel", "Undeclared", "Backslash", "Flaky",
     "Unsatisfied", "EmptyGuard", "Overshoot", "UnsatisfiedSecond", "Diamond"}

Experiment(name) ==
    CASE name = "LinearPipeline" -> LinearPipeline
      [] name = "Inconsistent" -> Inconsistent
      [] name = "Parallel" -> Parallel
      [] name = "Undeclared" -> Undeclared
      [] name = "Backslash" -> Backslash
      [] name = "Flaky" -> Flaky
      [] name = "Unsatisfied" -> Unsatisfied
      [] name = "EmptyGuard" -> EmptyGuard
      [] name = "Overshoot" -> Overshoot
      [] name = "UnsatisfiedSecond" -> UnsatisfiedSecond
      [] name = "Diamond" -> Diamond

-----------------------------------------------------------------------------
(* Construction: run_local and PyExperimentInstance.__init__ *)

\* Mutant of first_unsatisfied: the loop goes on after an unsatisfied dependency,
\* and the last one is named
first_unsatisfied_last(guard, st) ==
    LET bad == {n \in 1..Len(guard) : ~is_satisfied_by(guard[n], st)}
    IN  IF bad = {} THEN 0 ELSE CHOOSE n \in bad : \A m \in bad : m <= n

\* "for dependency in wedmakefile.initial_guard().dependencies(): if not
\* is_satisfied_by(self._state): raise RuntimeError(UnsatisfiedInitialGuard ...)":
\* the place in the guard of the dependency the exception names, or 0 if none is
\* raised
first_unsatisfied(guard, st) ==
    LET bad == {n \in 1..Len(guard) : ~is_satisfied_by(guard[n], st)}
    IN  IF bad = {} THEN 0 ELSE CHOOSE n \in bad : \A m \in bad : n <= m

Init ==
    \E name \in Experiments, n \in 1..NWorkers :
      LET w == Experiment(name) IN
        /\ experiment = name
        /\ n_threads = n
        /\ state = w.config
        /\ created = Satisfies(w.initial_guard, w.config)
        /\ ei_lock = Free
        /\ variable_locks = [id \in Range(variables(w)) |-> Free]
        /\ exceptions = <<>>
        /\ pc = [t \in Workers |-> IF Satisfies(w.initial_guard, w.config) /\ t <= n
                                   THEN "cs_acquire" ELSE "not_started"]
        /\ probe = [t \in Workers |-> "final"]
        /\ at = [t \in Workers |-> "while"]
        /\ i = [t \in Workers |-> 0]
        /\ res = [t \in Workers |-> FALSE]
        /\ task = [t \in Workers |-> 0]
        /\ ready_tasks = [t \in Workers |-> <<>>]
        /\ other_state = [t \in Workers |-> EmptyState]
        /\ ret = [t \in Workers |-> FALSE]
        /\ call = NoCall

-----------------------------------------------------------------------------
(* Helpers of the actions *)

\* self._wedmakefile: the parsed WED-Makefile, with the configuration it is run on
wedmakefile == Experiment(experiment)

tasks == wedmakefile.tasks

\* Mutant of lock_list: the three methods try the lock of no variable
lock_list_none(w) == <<>>

\* The locks a @CSDecorator method of worker w tries, in the order it tries them
lock_list(w) ==
    IF probe[w] = "ready" THEN on_variables(tasks[task[w]].guard)
    ELSE variables(wedmakefile)

\* Mutant of acquire_returns: Lock.acquire() waits until the lock is free
acquire_blocking(id) == variable_locks[id] = Free

\* Lock.acquire(blocking=False) returns at once, whether or not the lock is free
acquire_returns(id) == TRUE

\* Mutant of acquire: the value acquire returns is not looked at
acquire_unchecked(id) == TRUE

\* The value Lock.acquire(blocking=False) returns: True iff the lock was free
\* (and is now held by the caller)
acquire(id) == variable_locks[id] = Free

\* Mutant of release_first: "while j < len(locks)", every lock of the list is
\* released
release_first_whole(locks, n) ==
    [id \in DOMAIN variable_locks |->
        IF \E j \in 1..Len(locks) : locks[j] = id THEN Free ELSE variable_locks[id]]

\* Mutant of release_first: "while j < i - 1", the last lock acquired is kept
release_first_short(locks, n) ==
    [id \in DOMAIN variable_locks |->
        IF \E j \in 1..(n - 1) : locks[j] = id THEN Free ELSE variable_locks[id]]

\* "j = 0; while j < i: locks[j].release(); j += 1": the first n locks of the list
\* are released
release_first(locks, n) ==
    [id \in DOMAIN variable_locks |->
        IF \E j \in 1..n : locks[j] = id THEN Free ELSE variable_locks[id]]

\* Mutant of release_all: the lock of every variable of the table is released,
\* not only the locks of the list
release_all_table(locks) == [id \in DOMAIN variable_locks |-> Free]

\* "for variable in ...: self._variable_locks[variable.identifier()].release()"
release_all(locks) == release_first(locks, Len(locks))

\* The variable locks worker w holds
held(w) == {id \in DOMAIN variable_locks : variable_locks[id] = w}

RuntimeError(kind, t, id) == [kind |-> kind, task |-> t, variable |-> id]

\* The call of is_in_final_state of line 486 (at = "while") or 495 ("return")
call_is_in_final_state(w, where) ==
    /\ pc' = [pc EXCEPT ![w] = "cs_acquire"]
    /\ probe' = [probe EXCEPT ![w] = "final"]
    /\ at' = [at EXCEPT ![w] = where]

\* ready_to_execute_tasks evaluates is_ready_to_execute_task for the task n, or
\* is done when there is no task n
ready_next(w, n, ready) ==
    /\ ready_tasks' = [ready_tasks EXCEPT ![w] = ready]
    /\ IF n <= Len(tasks)
       THEN /\ task' = [task EXCEPT ![w] = n]
            /\ pc' = [pc EXCEPT ![w] = "cs_acquire"]
            /\ probe' = [probe EXCEPT ![w] = "ready"]
       ELSE /\ task' = [task EXCEPT ![w] = 0]
            /\ pc' = [pc EXCEPT ![w] = "choose"]
            /\ UNCHANGED probe

-----------------------------------------------------------------------------
(* The three @CSDecorator methods *)

\* Mutant of cs_acquire: the decorator calls f without acquiring the lock
cs_acquire_unlocked(w) ==
    /\ pc[w] = "cs_acquire"
    /\ i' = [i EXCEPT ![w] = 0]
    /\ pc' = [pc EXCEPT ![w] = IF Len(lock_list(w)) = 0 THEN "evaluate" ELSE "try_lock"]
    /\ UNCHANGED <<call, experiment, n_threads, created, state, ei_lock, variable_locks,
                   exceptions, probe, at, res, task, ready_tasks, other_state, ret>>

\* CSDecorator.wrapped, self._lock.acquire(): blocks until _ei_lock is free
cs_acquire(w) ==
    /\ pc[w] = "cs_acquire"
    /\ ei_lock = Free
    /\ ei_lock' = w
    /\ i' = [i EXCEPT ![w] = 0]
    /\ pc' = [pc EXCEPT ![w] = IF Len(lock_list(w)) = 0 THEN "evaluate" ELSE "try_lock"]
    /\ UNCHANGED <<call, experiment, n_threads, created, state, variable_locks, exceptions,
                   probe, at, res, task, ready_tasks, other_state, ret>>

\* Mutant of try_lock: a failed acquire does not end the method, the loop goes on
\* to the next variable
try_lock_continue(w) ==
    /\ pc[w] = "try_lock"
    /\ LET locks == lock_list(w)
           id == locks[i[w] + 1]
       IN  /\ acquire_returns(id)
           /\ variable_locks' = IF acquire(id) THEN [variable_locks EXCEPT ![id] = w]
                                ELSE variable_locks
           /\ i' = [i EXCEPT ![w] = i[w] + 1]
           /\ pc' = [pc EXCEPT ![w] =
                        IF i[w] + 1 = Len(locks) THEN "evaluate" ELSE "try_lock"]
    /\ UNCHANGED <<call, experiment, n_threads, created, state, ei_lock, exceptions,
                   res, probe, at, task, ready_tasks, other_state, ret>>

\* One turn of "for (i, variable) in enumerate(...): if not lock.acquire(
\* blocking=False): release the i locks acquired; return False"
try_lock(w) ==
    /\ pc[w] = "try_lock"
    /\ LET locks == lock_list(w)
           id == locks[i[w] + 1]
       IN  /\ acquire_returns(id)
           /\ IF acquire(id)
              THEN /\ variable_locks' = [variable_locks EXCEPT ![id] = w]
                   /\ i' = [i EXCEPT ![w] = i[w] + 1]
                   /\ pc' = [pc EXCEPT ![w] =
                                IF i[w] + 1 = Len(locks) THEN "evaluate" ELSE "try_lock"]
                   /\ UNCHANGED res
              ELSE /\ variable_locks' = release_first(locks, i[w])
                   /\ i' = [i EXCEPT ![w] = 0]
                   /\ res' = [res EXCEPT ![w] = FALSE]
                   /\ pc' = [pc EXCEPT ![w] = "cs_release"]
    /\ UNCHANGED <<call, experiment, n_threads, created, state, ei_lock, exceptions,
                   probe, at, task, ready_tasks, other_state, ret>>

\* Mutant of is_in_final_state: the method returns False whatever final_guard
\* evaluates to
is_in_final_state_never(w) ==
    /\ pc[w] = "evaluate"
    /\ probe[w] = "final"
    /\ res' = [res EXCEPT ![w] = FALSE]
    /\ variable_locks' = release_all(variables(wedmakefile))
    /\ i' = [i EXCEPT ![w] = 0]
    /\ pc' = [pc EXCEPT ![w] = "cs_release"]
    /\ UNCHANGED <<call, experiment, n_threads, created, state, ei_lock, exceptions,
                   probe, at, task, ready_tasks, other_state, ret>>

\* is_in_final_state with every lock acquired: evaluate final_guard, release
is_in_final_state(w) ==
    /\ pc[w] = "evaluate"
    /\ probe[w] = "final"
    /\ res' = [res EXCEPT ![w] = Satisfies(wedmakefile.final_guard, state)]
    /\ variable_locks' = release_all(variables(wedmakefile))
    /\ i' = [i EXCEPT ![w] = 0]
    /\ pc' = [pc EXCEPT ![w] = "cs_release"]
    /\ UNCHANGED <<call, experiment, n_threads, created, state, ei_lock, exceptions,
                   probe, at, task, ready_tasks, other_state, ret>>

\* Mutant of is_in_inconsistent_state: the guards of the tasks are not looked at
is_in_inconsistent_state_final_only(w) ==
    /\ pc[w] = "evaluate"
    /\ probe[w] = "inconsistent"
    /\ res' = [res EXCEPT ![w] = ~Satisfies(wedmakefile.final_guard, state)]
    /\ variable_locks' = release_all(variables(wedmakefile))
    /\ i' = [i EXCEPT ![w] = 0]
    /\ pc' = [pc EXCEPT ![w] = "cs_release"]
    /\ UNCHANGED <<call, experiment, n_threads, created, state, ei_lock, exceptions,
                   probe, at, task, ready_tasks, other_state, ret>>

\* Mutant of is_in_inconsistent_state: the loop over the tasks stops after the
\* first task
is_in_inconsistent_state_first_task(w) ==
    /\ pc[w] = "evaluate"
    /\ probe[w] = "inconsistent"
    /\ LET final == Satisfies(wedmakefile.final_guard, state)
           trigger_task == Len(tasks) > 0 /\ Satisfies(tasks[1].guard, state)
       IN  res' = [res EXCEPT ![w] = ~final /\ ~trigger_task]
    /\ variable_locks' = release_all(variables(wedmakefile))
    /\ i' = [i EXCEPT ![w] = 0]
    /\ pc' = [pc EXCEPT ![w] = "cs_release"]
    /\ UNCHANGED <<call, experiment, n_threads, created, state, ei_lock, exceptions,
                   probe, at, task, ready_tasks, other_state, ret>>

\* Mutant of is_in_inconsistent_state: "return not is_in_final_state and
\* trigger_task"
is_in_inconsistent_state_trigger(w) ==
    /\ pc[w] = "evaluate"
    /\ probe[w] = "inconsistent"
    /\ LET final == Satisfies(wedmakefile.final_guard, state)
           trigger_task == \E n \in 1..Len(tasks) : Satisfies(tasks[n].guard, state)
       IN  res' = [res EXCEPT ![w] = ~final /\ trigger_task]
    /\ variable_locks' = release_all(variables(wedmakefile))
    /\ i' = [i EXCEPT ![w] = 0]
    /\ pc' = [pc EXCEPT ![w] = "cs_release"]
    /\ UNCHANGED <<call, experiment, n_threads, created, state, ei_lock, exceptions,
                   probe, at, task, ready_tasks, other_state, ret>>

\* is_in_inconsistent_state with every lock acquired
is_in_inconsistent_state(w) ==
    /\ pc[w] = "evaluate"
    /\ probe[w] = "inconsistent"
    /\ LET final == Satisfies(wedmakefile.final_guard, state)
           trigger_task == \E n \in 1..Len(tasks) : Satisfies(tasks[n].guard, state)
       IN  res' = [res EXCEPT ![w] = ~final /\ ~trigger_task]
    /\ variable_locks' = release_all(variables(wedmakefile))
    /\ i' = [i EXCEPT ![w] = 0]
    /\ pc' = [pc EXCEPT ![w] = "cs_release"]
    /\ UNCHANGED <<call, experiment, n_threads, created, state, ei_lock, exceptions,
                   probe, at, task, ready_tasks, other_state, ret>>

\* Mutant of is_ready_to_execute_task: the locks are not released after the
\* evaluation
is_ready_to_execute_task_kept(w) ==
    /\ pc[w] = "evaluate"
    /\ probe[w] = "ready"
    /\ res' = [res EXCEPT ![w] = Satisfies(tasks[task[w]].guard, state)]
    /\ i' = [i EXCEPT ![w] = 0]
    /\ pc' = [pc EXCEPT ![w] = "cs_release"]
    /\ UNCHANGED <<call, experiment, n_threads, created, state, ei_lock, exceptions,
                   variable_locks, probe, at, task, ready_tasks, other_state, ret>>

\* is_ready_to_execute_task with the task's locks acquired
is_ready_to_execute_task(w) ==
    /\ pc[w] = "evaluate"
    /\ probe[w] = "ready"
    /\ res' = [res EXCEPT ![w] = Satisfies(tasks[task[w]].guard, state)]
    /\ variable_locks' = release_all(on_variables(tasks[task[w]].guard))
    /\ i' = [i EXCEPT ![w] = 0]
    /\ pc' = [pc EXCEPT ![w] = "cs_release"]
    /\ UNCHANGED <<call, experiment, n_threads, created, state, ei_lock, exceptions,
                   probe, at, task, ready_tasks, other_state, ret>>

\* Mutant of final_return: the while test does not look at the value returned
final_return_ignored(w) ==
    /\ pc[w] = "cs_release"
    /\ probe[w] = "final"
    /\ ei_lock' = Free
    /\ IF at[w] = "while"
       THEN /\ pc' = [pc EXCEPT ![w] = "while_exceptions"]
            /\ UNCHANGED <<probe, at, ret>>
       ELSE /\ ret' = [ret EXCEPT ![w] = res[w]]
            /\ pc' = [pc EXCEPT ![w] = "done"]
            /\ UNCHANGED <<probe, at>>
    /\ UNCHANGED <<call, experiment, n_threads, created, state, variable_locks, exceptions,
                   i, res, task, ready_tasks, other_state>>

\* CSDecorator.wrapped releases _ei_lock and is_in_final_state returns to run:
\* to the while test of line 486, or as the value run returns (line 495)
final_return(w) ==
    /\ pc[w] = "cs_release"
    /\ probe[w] = "final"
    /\ ei_lock' = Free
    /\ IF at[w] = "while"
       THEN /\ IF res[w]
               THEN call_is_in_final_state(w, "return")
               ELSE /\ pc' = [pc EXCEPT ![w] = "while_exceptions"]
                    /\ UNCHANGED <<probe, at>>
            /\ UNCHANGED ret
       ELSE /\ ret' = [ret EXCEPT ![w] = res[w]]
            /\ pc' = [pc EXCEPT ![w] = "done"]
            /\ UNCHANGED <<probe, at>>
    /\ UNCHANGED <<call, experiment, n_threads, created, state, variable_locks, exceptions,
                   i, res, task, ready_tasks, other_state>>

\* CSDecorator.wrapped releases _ei_lock and is_in_inconsistent_state returns to
\* the if of line 487
inconsistent_return(w) ==
    /\ pc[w] = "cs_release"
    /\ probe[w] = "inconsistent"
    /\ ei_lock' = Free
    /\ IF res[w]
       THEN /\ pc' = [pc EXCEPT ![w] = "record_inconsistent"]
            /\ UNCHANGED <<probe, task, ready_tasks>>
       ELSE ready_next(w, 1, <<>>)
    /\ UNCHANGED <<call, experiment, n_threads, created, state, variable_locks, exceptions,
                   at, i, res, other_state, ret>>

\* Mutant of ready_return: the task is left out of the list whatever
\* is_ready_to_execute_task returned
ready_return_dropped(w) ==
    /\ pc[w] = "cs_release"
    /\ probe[w] = "ready"
    /\ ei_lock' = Free
    /\ ready_next(w, task[w] + 1, ready_tasks[w])
    /\ UNCHANGED <<call, experiment, n_threads, created, state, variable_locks, exceptions,
                   at, i, res, other_state, ret>>

\* CSDecorator.wrapped releases _ei_lock and is_ready_to_execute_task returns to
\* the list comprehension of ready_to_execute_tasks
ready_return(w) ==
    /\ pc[w] = "cs_release"
    /\ probe[w] = "ready"
    /\ ei_lock' = Free
    /\ ready_next(w, task[w] + 1,
                  IF res[w] THEN Append(ready_tasks[w], task[w]) ELSE ready_tasks[w])
    /\ UNCHANGED <<call, experiment, n_threads, created, state, variable_locks, exceptions,
                   at, i, res, other_state, ret>>

-----------------------------------------------------------------------------
(* PyExperimentInstance.run *)

\* Mutant of run_while: "len(self._exceptions) <= 1"
run_while_off_by_one(w) ==
    /\ pc[w] = "while_exceptions"
    /\ IF Len(exceptions) <= 1
       THEN /\ pc' = [pc EXCEPT ![w] = "cs_acquire"]
            /\ probe' = [probe EXCEPT ![w] = "inconsistent"]
            /\ UNCHANGED at
       ELSE call_is_in_final_state(w, "return")
    /\ UNCHANGED <<shared, i, res, task, ready_tasks, other_state, ret>>

\* Mutant of run_while: the while test does not look at _exceptions
run_while_unchecked(w) ==
    /\ pc[w] = "while_exceptions"
    /\ pc' = [pc EXCEPT ![w] = "cs_acquire"]
    /\ probe' = [probe EXCEPT ![w] = "inconsistent"]
    /\ UNCHANGED at
    /\ UNCHANGED <<shared, i, res, task, ready_tasks, other_state, ret>>

\* "and len(self._exceptions) == 0" of the while test
run_while(w) ==
    /\ pc[w] = "while_exceptions"
    /\ IF Len(exceptions) = 0
       THEN /\ pc' = [pc EXCEPT ![w] = "cs_acquire"]
            /\ probe' = [probe EXCEPT ![w] = "inconsistent"]
            /\ UNCHANGED at
       ELSE call_is_in_final_state(w, "return")
    /\ UNCHANGED <<shared, i, res, task, ready_tasks, other_state, ret>>

\* Mutant of run_record_inconsistent: the exception is built and not appended
run_record_inconsistent_dropped(w) ==
    /\ pc[w] = "record_inconsistent"
    /\ UNCHANGED exceptions
    /\ ready_next(w, 1, <<>>)
    /\ UNCHANGED <<call, experiment, n_threads, created, state, ei_lock, variable_locks,
                   at, i, res, other_state, ret>>

\* self._exceptions.append(RuntimeError("InconsistentState: ..."))
run_record_inconsistent(w) ==
    /\ pc[w] = "record_inconsistent"
    /\ exceptions' = Append(exceptions, RuntimeError("InconsistentState", "", ""))
    /\ ready_next(w, 1, <<>>)
    /\ UNCHANGED <<call, experiment, n_threads, created, state, ei_lock, variable_locks,
                   at, i, res, other_state, ret>>

\* "if len(ready_tasks): self.execute_task(random.choice(ready_tasks))"
run_choose(w) ==
    /\ pc[w] = "choose"
    /\ IF ready_tasks[w] = <<>>
       THEN /\ pc' = [pc EXCEPT ![w] = "sleep"]
            /\ UNCHANGED task
       ELSE \E n \in Range(ready_tasks[w]) :
                /\ task' = [task EXCEPT ![w] = n]
                /\ pc' = [pc EXCEPT ![w] = "execute_acquire"]
    /\ ready_tasks' = [ready_tasks EXCEPT ![w] = <<>>]
    /\ UNCHANGED <<shared, probe, at, i, res, other_state, ret>>

\* time.sleep(0.1), then the while test again
run_sleep(w) ==
    /\ pc[w] = "sleep"
    /\ task' = [task EXCEPT ![w] = 0]
    /\ other_state' = [other_state EXCEPT ![w] = EmptyState]
    /\ call_is_in_final_state(w, "while")
    /\ UNCHANGED <<shared, i, res, ready_tasks, ret>>

-----------------------------------------------------------------------------
(* PyExperimentInstance.execute_task *)

\* The guard of the task worker w executes
guard_of(w) == tasks[task[w]].guard

\* PyExperimentInstance._ei_lock.acquire() of line 391
execute_acquire(w) ==
    /\ pc[w] = "execute_acquire"
    /\ ei_lock = Free
    /\ ei_lock' = w
    /\ i' = [i EXCEPT ![w] = 0]
    /\ pc' = [pc EXCEPT ![w] =
                 IF Len(on_variables(guard_of(w))) = 0 THEN "execute_unlock"
                 ELSE "execute_try_lock"]
    /\ UNCHANGED <<call, experiment, n_threads, created, state, variable_locks, exceptions,
                   probe, at, res, task, ready_tasks, other_state, ret>>

\* One turn of the loop of lines 392-399: on a failure the i locks acquired and
\* _ei_lock are released and execute_task returns False
execute_try_lock(w) ==
    /\ pc[w] = "execute_try_lock"
    /\ LET locks == on_variables(guard_of(w))
           id == locks[i[w] + 1]
       IN  /\ acquire_returns(id)
           /\ IF acquire(id)
              THEN /\ variable_locks' = [variable_locks EXCEPT ![id] = w]
                   /\ i' = [i EXCEPT ![w] = i[w] + 1]
                   /\ pc' = [pc EXCEPT ![w] =
                                IF i[w] + 1 = Len(locks) THEN "execute_unlock"
                                ELSE "execute_try_lock"]
                   /\ UNCHANGED <<ei_lock, res>>
              ELSE /\ variable_locks' = release_first(locks, i[w])
                   /\ ei_lock' = Free
                   /\ i' = [i EXCEPT ![w] = 0]
                   /\ res' = [res EXCEPT ![w] = FALSE]
                   /\ pc' = [pc EXCEPT ![w] = "sleep"]
    /\ UNCHANGED <<call, experiment, n_threads, created, state, exceptions,
                   probe, at, task, ready_tasks, other_state, ret>>

\* Mutant of execute_unlock: _ei_lock is not released before the body runs
execute_unlock_kept(w) ==
    /\ pc[w] = "execute_unlock"
    /\ i' = [i EXCEPT ![w] = 0]
    /\ pc' = [pc EXCEPT ![w] = "execute_guard"]
    /\ UNCHANGED <<call, experiment, n_threads, created, state, ei_lock, variable_locks,
                   exceptions, probe, at, res, task, ready_tasks, other_state, ret>>

\* PyExperimentInstance._ei_lock.release() of line 400
execute_unlock(w) ==
    /\ pc[w] = "execute_unlock"
    /\ ei_lock' = Free
    /\ i' = [i EXCEPT ![w] = 0]
    /\ pc' = [pc EXCEPT ![w] = "execute_guard"]
    /\ UNCHANGED <<call, experiment, n_threads, created, state, variable_locks, exceptions,
                   probe, at, res, task, ready_tasks, other_state, ret>>

\* Mutant of execute_guard: the guard is not evaluated again, the body runs
execute_guard_skipped(w) ==
    /\ pc[w] = "execute_guard"
    /\ pc' = [pc EXCEPT ![w] = "execute_body"]
    /\ UNCHANGED res
    /\ UNCHANGED <<shared, probe, at, i, task, ready_tasks, other_state, ret>>

\* Lines 401-407: the guard is evaluated again; unsatisfied, the body is skipped
execute_guard(w) ==
    /\ pc[w] = "execute_guard"
    /\ IF Satisfies(guard_of(w), state)
       THEN /\ pc' = [pc EXCEPT ![w] = "execute_body"]
            /\ UNCHANGED res
       ELSE /\ pc' = [pc EXCEPT ![w] = "execute_release"]
            /\ res' = [res EXCEPT ![w] = FALSE]
    /\ UNCHANGED <<shared, probe, at, i, task, ready_tasks, other_state, ret>>

\* Mutant of execute_body: the merge is not in the else of the for loop, so it is
\* reached after an UndeclaredDependency was recorded, too
execute_body_merges(w) ==
    /\ pc[w] = "execute_body"
    /\ \E bash_script \in tasks[task[w]].bash :
        \E out \in {from_bash_script(guard_of(w), bash_script, state)} :
        LET name == tasks[task[w]].name
        IN  IF ~out.ok
            THEN /\ exceptions' = Append(exceptions, RuntimeError("TaskExecutionError", name, ""))
                 /\ res' = [res EXCEPT ![w] = FALSE]
                 /\ pc' = [pc EXCEPT ![w] = "execute_release"]
                 /\ UNCHANGED other_state
            ELSE /\ exceptions' =
                        IF undeclared(guard_of(w), out.st) # ""
                        THEN Append(exceptions,
                                RuntimeError("UndeclaredDependency", name,
                                             undeclared(guard_of(w), out.st)))
                        ELSE exceptions
                 /\ other_state' = [other_state EXCEPT ![w] = out.st]
                 /\ res' = [res EXCEPT ![w] = undeclared(guard_of(w), out.st) = ""]
                 /\ pc' = [pc EXCEPT ![w] = "execute_merge"]
    /\ UNCHANGED <<call, experiment, n_threads, created, state, ei_lock, variable_locks,
                   probe, at, i, task, ready_tasks, ret>>

\* Mutant of execute_body: "except Exception: pass", the exception of the runner
\* is not recorded
execute_body_unrecorded(w) ==
    /\ pc[w] = "execute_body"
    /\ \E bash_script \in tasks[task[w]].bash :
        \E out \in {from_bash_script(guard_of(w), bash_script, state)} :
        LET name == tasks[task[w]].name
        IN  IF ~out.ok
            THEN /\ res' = [res EXCEPT ![w] = FALSE]
                 /\ pc' = [pc EXCEPT ![w] = "execute_release"]
                 /\ UNCHANGED <<exceptions, other_state>>
            ELSE IF undeclared(guard_of(w), out.st) # ""
            THEN /\ exceptions' = Append(exceptions,
                        RuntimeError("UndeclaredDependency", name,
                                     undeclared(guard_of(w), out.st)))
                 /\ other_state' = [other_state EXCEPT ![w] = out.st]
                 /\ res' = [res EXCEPT ![w] = FALSE]
                 /\ pc' = [pc EXCEPT ![w] = "execute_release"]
            ELSE /\ other_state' = [other_state EXCEPT ![w] = out.st]
                 /\ res' = [res EXCEPT ![w] = TRUE]
                 /\ pc' = [pc EXCEPT ![w] = "execute_merge"]
                 /\ UNCHANGED exceptions
    /\ UNCHANGED <<call, experiment, n_threads, created, state, ei_lock, variable_locks,
                   probe, at, i, task, ready_tasks, ret>>

\* Lines 408-475: the script runs and ends; an exception is recorded, and so is
\* a variable of the delta that the guard does not name
execute_body(w) ==
    /\ pc[w] = "execute_body"
    /\ \E bash_script \in tasks[task[w]].bash :
        \E out \in {from_bash_script(guard_of(w), bash_script, state)} :
        LET name == tasks[task[w]].name
        IN  IF ~out.ok
            THEN /\ exceptions' = Append(exceptions, RuntimeError("TaskExecutionError", name, ""))
                 /\ res' = [res EXCEPT ![w] = FALSE]
                 /\ pc' = [pc EXCEPT ![w] = "execute_release"]
                 /\ UNCHANGED other_state
            ELSE IF undeclared(guard_of(w), out.st) # ""
            THEN /\ exceptions' = Append(exceptions,
                        RuntimeError("UndeclaredDependency", name,
                                     undeclared(guard_of(w), out.st)))
                 /\ other_state' = [other_state EXCEPT ![w] = out.st]
                 /\ res' = [res EXCEPT ![w] = FALSE]
                 /\ pc' = [pc EXCEPT ![w] = "execute_release"]
            ELSE /\ other_state' = [other_state EXCEPT ![w] = out.st]
                 /\ res' = [res EXCEPT ![w] = TRUE]
                 /\ pc' = [pc EXCEPT ![w] = "execute_merge"]
                 /\ UNCHANGED exceptions
    /\ UNCHANGED <<call, experiment, n_threads, created, state, ei_lock, variable_locks,
                   probe, at, i, task, ready_tasks, ret>>

\* PyExperimentInstance._ei_lock.acquire() of line 478, with the task's locks held
execute_merge(w) ==
    /\ pc[w] = "execute_merge"
    /\ ei_lock = Free
    /\ ei_lock' = w
    /\ pc' = [pc EXCEPT ![w] = "execute_update"]
    /\ UNCHANGED <<call, experiment, n_threads, created, state, variable_locks, exceptions,
                   probe, at, i, res, task, ready_tasks, other_state, ret>>

\* self._state.update(other_state) and the release of _ei_lock (lines 479-480)
execute_update(w) ==
    /\ pc[w] = "execute_update"
    /\ state' = update(state, other_state[w])
    /\ ei_lock' = Free
    /\ pc' = [pc EXCEPT ![w] = "execute_release"]
    /\ UNCHANGED <<call, experiment, n_threads, created, variable_locks, exceptions,
                   probe, at, i, res, task, ready_tasks, other_state, ret>>

\* Mutant of execute_release: the return is inside the for loop, after the first
\* release
execute_release_return_early(w) ==
    /\ pc[w] = "execute_release"
    /\ LET locks == on_variables(guard_of(w))
       IN  IF Len(locks) > 0
           THEN variable_locks' = [variable_locks EXCEPT ![locks[1]] = Free]
           ELSE UNCHANGED variable_locks
    /\ i' = [i EXCEPT ![w] = 0]
    /\ pc' = [pc EXCEPT ![w] = "sleep"]
    /\ UNCHANGED <<call, experiment, n_threads, created, state, ei_lock, exceptions,
                   probe, at, res, task, ready_tasks, other_state, ret>>

\* One turn of "for variable in task.guard().on_variables(): lock.release()"
\* (lines 481-482), or after the last one the return of line 483
execute_release(w) ==
    /\ pc[w] = "execute_release"
    /\ LET locks == on_variables(guard_of(w))
       IN  IF i[w] < Len(locks)
           THEN /\ variable_locks' = [variable_locks EXCEPT ![locks[i[w] + 1]] = Free]
                /\ i' = [i EXCEPT ![w] = i[w] + 1]
                /\ UNCHANGED pc
           ELSE /\ i' = [i EXCEPT ![w] = 0]
                /\ pc' = [pc EXCEPT ![w] = "sleep"]
                /\ UNCHANGED variable_locks
    /\ UNCHANGED <<call, experiment, n_threads, created, state, ei_lock, exceptions,
                   probe, at, res, task, ready_tasks, other_state, ret>>

-----------------------------------------------------------------------------
(* The specification *)

\* One step of worker w
Step(w) ==
    \/ cs_acquire(w)
    \/ try_lock(w)
    \/ is_in_final_state(w)
    \/ is_in_inconsistent_state(w)
    \/ is_ready_to_execute_task(w)
    \/ final_return(w)
    \/ inconsistent_return(w)
    \/ ready_return(w)
    \/ run_while(w)
    \/ run_record_inconsistent(w)
    \/ run_choose(w)
    \/ run_sleep(w)
    \/ execute_acquire(w)
    \/ execute_try_lock(w)
    \/ execute_unlock(w)
    \/ execute_guard(w)
    \/ execute_body(w)
    \/ execute_merge(w)
    \/ execute_update(w)
    \/ execute_release(w)

Next == \E w \in Workers : Step(w)

Spec == Init /\ [][Next]_vars

\* The scheduling the run relies on: a worker that can take a step again and
\* again takes one (threads are preemptively scheduled, and every turn of the
\* loop of run sleeps with no lock held)
FairSpec == Spec /\ \A w \in Workers : SF_vars(Step(w))

\* run_local after the join of the workers: "if len(_exceptions): raise
\* _exceptions[0]"; the error the instance reports, or none
reported == IF Len(exceptions) > 0 THEN <<exceptions[1]>> ELSE <<>>

-----------------------------------------------------------------------------
(* run_local: the end of the command *)

\* What the try block of lines 42-57 raises: the exception of the construction of
\* the instance, or after the join of the workers _exceptions[0]; or nothing
raised ==
    IF ~created THEN <<RuntimeError("UnsatisfiedInitialGuard", "", "")>> ELSE reported

\* "except Exception as e": the exceptions raised are RuntimeError (and
\* SyntaxError from the parser), all of them Exception
caught(e) == TRUE

\* The message run_local prints last: str(e) in the except clause (line 59), or
\* "Success!" in the else clause (line 62)
printed == IF raised # <<>> /\ caught(raised[1]) THEN raised[1].kind ELSE "Success!"

\* The exit status of the command: run_local sets none and returns normally after
\* the except clause as after the else clause; only an exception that leaves
\* run_local makes the interpreter exit with 1
exit_code == IF raised # <<>> /\ ~caught(raised[1]) THEN 1 ELSE 0

-----------------------------------------------------------------------------
(* A guard built and evaluated on its own: Guard.__init__ and the loop over *)
(* guard.dependencies() with PyDependency.is_satisfied_by                   *)

\* The texts of the literals: empty, one character, a backslash, two backslashes,
\* a backslash and a comma
Texts == {<<>>, <<"c">>, <<"d">>, <<BACKSLASH>>, <<BACKSLASH, BACKSLASH>>,
          <<BACKSLASH, COMMA>>}

\* The bracketed lists of at most two literals
Lists == {<<>>} \cup {<<t>> : t \in Texts} \cup {<<t, u>> : t \in Texts, u \in {<<"c">>, <<>>}}

\* The clauses on the variable A, and a few on B
Clauses ==
    {Eq("A", t) : t \in Texts} \cup {Ne("A", t) : t \in Texts}
    \cup {In("A", l) : l \in Lists} \cup {NotIn("A", l) : l \in Lists}
    \cup {Eq("B", <<"c">>), Ne("B", <<>>), In("B", <<<<"c">>, <<"d">>>>)}

\* The lists of clauses given to Guard: none, one clause, two clauses of which one
\* is on B, and the lists of 255, 256 and 257 clauses
Guards ==
    {<<>>} \cup {<<c>> : c \in Clauses}
    \cup {<<c, d>> : c \in Clauses, d \in {Eq("B", <<"c">>), Ne("B", <<>>), In("B", <<<<"c">>, <<"d">>>>)}}
    \cup {[n \in 1..k |-> Eq("A", <<"c">>)] :
            k \in {MAX_DEPENDENCIES - 1, MAX_DEPENDENCIES, MAX_DEPENDENCIES + 1}}

\* The states over A and B: unbound, or bound to a value of the texts
States ==
    {[value |-> v, permission |-> [id \in DOMAIN v |-> "rw"]] :
        v \in UNION {[D -> Texts \ {<<BACKSLASH, COMMA>>}] : D \in SUBSET {"A", "B"}}}

\* No instance is created and no worker runs
NoInstance ==
    /\ experiment = "Unsatisfied"
    /\ n_threads = 1
    /\ created = FALSE
    /\ state = EmptyState
    /\ ei_lock = Free
    /\ variable_locks = <<>>
    /\ exceptions = <<>>
    /\ pc = [t \in Workers |-> "not_started"]
    /\ probe = [t \in Workers |-> "final"]
    /\ at = [t \in Workers |-> "while"]
    /\ i = [t \in Workers |-> 0]
    /\ res = [t \in Workers |-> FALSE]
    /\ task = [t \in Workers |-> 0]
    /\ ready_tasks = [t \in Workers |-> <<>>]
    /\ other_state = [t \in Workers |-> EmptyState]
    /\ ret = [t \in Workers |-> FALSE]

instance == <<experiment, n_threads, created, state, ei_lock, variable_locks, exceptions,
              pc, probe, at, i, res, task, ready_tasks, other_state, ret>>

GuardInit ==
    /\ NoInstance
    /\ \E clauses \in Guards, ei_state \in States :
        call = [pc |-> "Guard", clauses |-> clauses, ei_state |-> ei_state, res |-> FALSE]

\* Guard.__init__: the list of the dependencies is validated and kept, or
\* SyntaxError is raised
Guard_init ==
    /\ call.pc = "Guard"
    /\ call' = [call EXCEPT !.pc = IF validate_dependencies(call.clauses)
                                   THEN "guard" ELSE "SyntaxError"]
    /\ UNCHANGED instance

\* "flag = True; for dependency in guard.dependencies(): if not
\* PyDependency(dependency).is_satisfied_by(state): flag = False" (lines 322-325,
\* 343-346, 373-376): every dependency is evaluated; the flag is returned, or the
\* SyntaxError of an eval goes up
evaluate ==
    /\ call.pc = "guard"
    /\ IF \E n \in 1..Len(call.clauses) : raises(call.clauses[n])
       THEN call' = [call EXCEPT !.pc = "raised"]
       ELSE call' = [call EXCEPT !.pc = "returned",
                                 !.res = Satisfies(call.clauses, call.ei_state)]
    /\ UNCHANGED instance

GuardNext == Guard_init \/ evaluate

GuardSpec == GuardInit /\ [][GuardNext]_vars

-----------------------------------------------------------------------------
(* Vocabulary of the properties *)

\* The clause table: when a dependency holds of a state
Holds(dependency, st) ==
    LET value == IF dependency.var \in DOMAIN st.value
                 THEN st.value[dependency.var] ELSE <<>>
    IN  \/ dependency.kind = "eq" /\ value = dependency.lit
        \/ dependency.kind = "ne" /\ value # dependency.lit
        \/ dependency.kind = "in" /\ \E n \in 1..Len(dependency.lit) : value = dependency.lit[n]
        \/ dependency.kind = "notin" /\ \A n \in 1..Len(dependency.lit) : value # dependency.lit[n]

\* A guard is the conjunction of its dependencies
GuardHolds(guard, st) == \A n \in 1..Len(guard) : Holds(guard[n], st)

\* on_variables of a task, as a set
OnVariables(n) == {tasks[n].guard[k].var : k \in 1..Len(tasks[n].guard)}

Started == {w \in Workers : w <= n_threads /\ created}

AllDone == created /\ \A w \in Started : pc[w] = "done"

\* Worker w is inside execute_task, after the successful acquisition of the
\* task's locks and before the first release at its end
InTask(w) ==
    \/ pc[w] \in {"execute_unlock", "execute_guard", "execute_body",
                  "execute_merge", "execute_update"}
    \/ pc[w] = "execute_release" /\ i[w] = 0

\* The binding of an identifier in a state
Binding(st, id) ==
    IF id \in DOMAIN st.value
    THEN [bound |-> TRUE, value |-> st.value[id], permission |-> st.permission[id]]
    ELSE [bound |-> FALSE, value |-> <<>>, permission |-> "rw"]

Recorded(kind) == \E n \in 1..Len(exceptions) : exceptions[n].kind = kind

\* The final guard does not hold and no task's guard holds
Stuck ==
    /\ ~GuardHolds(wedmakefile.final_guard, state)
    /\ \A n \in 1..Len(tasks) : ~GuardHolds(tasks[n].guard, state)

-----------------------------------------------------------------------------
(* Properties *)

\* C1: any two workers that are inside execute_task at the same time, between the
\* acquisition of the locks and the release, execute tasks whose on_variables are
\* disjoint; so a task with a non-empty guard is never executed by two at once.
MutualExclusion ==
    \A w1, w2 \in Workers :
        w1 # w2 /\ InTask(w1) /\ InTask(w2)
        => /\ OnVariables(task[w1]) \cap OnVariables(task[w2]) = {}
           /\ (task[w1] = task[w2] => OnVariables(task[w1]) = {})

\* Two different tasks have their bodies running at the same time
MutualExclusionWitness ==
    \E w1, w2 \in Workers :
        /\ pc[w1] = "execute_body" /\ pc[w2] = "execute_body"
        /\ task[w1] # task[w2]
        /\ OnVariables(task[w1]) # {} /\ OnVariables(task[w2]) # {}

\* C2: when every worker has terminated and no error was recorded, the state
\* satisfies every dependency of the final guard.
FinalCorrectness ==
    AllDone /\ exceptions = <<>> => GuardHolds(wedmakefile.final_guard, state)

\* Two workers have terminated without an error after tasks changed the state
FinalCorrectnessWitness ==
    /\ AllDone /\ exceptions = <<>> /\ n_threads = 2
    /\ state # wedmakefile.config

\* C3: a step changes the binding (value or permission) of a variable only if it
\* is the merge of a worker whose task names the variable in its guard; a
\* variable that is in no guard of the experiment keeps the binding of the
\* configuration.
WritesInsideDependencies ==
    /\ [][\A id \in Ids :
            Binding(state, id) # Binding(state', id)
            => \E w \in Workers :
                /\ pc[w] = "execute_update" /\ pc'[w] = "execute_release"
                /\ id \in OnVariables(task[w])]_vars
    /\ [](\A id \in Ids \ Range(variables(wedmakefile)) :
            Binding(state, id) = Binding(wedmakefile.config, id))

\* A task has written its variable while another worker is inside a task, and a
\* variable of the configuration that is in no guard is still bound
WritesInsideDependenciesWitness ==
    /\ experiment = "Parallel"
    /\ Binding(state, "P").bound /\ Binding(state, "C").bound
    /\ \E w \in Workers : pc[w] = "execute_release" /\ task[w] = 1
    /\ \E w \in Workers : pc[w] = "execute_body" /\ task[w] = 2

\* The next lock a worker holding _ei_lock is about to try
NextLock(w) ==
    IF pc[w] = "try_lock" THEN lock_list(w)[i[w] + 1]
    ELSE on_variables(guard_of(w))[i[w] + 1]

\* C4: a worker that cannot take a step is waiting for _ei_lock, the worker that
\* holds _ei_lock can take a step, and so as long as a worker has not terminated
\* some worker can take a step: no worker waits in a cycle of lock holders.
DeadlockFreedom ==
    /\ \A w \in Started :
        pc[w] # "done" /\ ~ENABLED Step(w)
        => /\ pc[w] \in {"cs_acquire", "execute_acquire", "execute_merge"}
           /\ ei_lock \in Workers \ {w}
    /\ ei_lock # Free => ENABLED Step(ei_lock)
    /\ ~AllDone /\ created => ENABLED Next

\* A worker holding the locks of its task waits for _ei_lock to merge, while the
\* holder of _ei_lock tries one of these locks
DeadlockFreedomWitness ==
    \E w1, w2 \in Workers :
        /\ pc[w1] = "execute_merge"
        /\ ei_lock = w2
        /\ pc[w2] \in {"try_lock", "execute_try_lock"}
        /\ variable_locks[NextLock(w2)] = w1

\* C5: once a variable is read-only in the state, no step changes its value or
\* its permission.
ReadOnlyImmutable ==
    [][\A id \in Ids :
         is_readonly(state, id) => Binding(state', id) = Binding(state, id)]_vars

\* C6: the merge of a delta that holds a variable which is read-only in the state
\* leaves the state unchanged and records a PermissionViolation; the linear
\* pipeline ends with a PermissionViolation.
PermissionCheckOnMerge ==
    /\ [][\A w \in Workers :
            /\ pc[w] = "execute_update" /\ pc'[w] = "execute_release"
            /\ \E id \in DOMAIN other_state[w].value : is_readonly(state, id)
            => state' = state /\ Recorded("PermissionViolation")']_vars
    /\ [](AllDone /\ experiment = "LinearPipeline" => Recorded("PermissionViolation"))

\* C7: when execute_task has returned, the worker holds no variable lock; the
\* keys of the lock table are at all times the variables of the experiment.
LocksReleased ==
    /\ \A w \in Workers : pc[w] = "sleep" /\ task[w] # 0 => held(w) = {}
    /\ DOMAIN variable_locks = Range(variables(wedmakefile))

\* execute_task of a task on two variables has returned after its script failed
LocksReleasedWitness ==
    \E w \in Workers :
        /\ pc[w] = "sleep" /\ task[w] # 0 /\ ~res[w]
        /\ Cardinality(OnVariables(task[w])) = 2
        /\ Recorded("TaskExecutionError")

\* Worker w is in the middle of executing a task: inside execute_task with the
\* task's locks acquired and not yet all released
Executing(w) ==
    \/ InTask(w)
    \/ pc[w] = "execute_release" /\ i[w] < Len(on_variables(guard_of(w)))

\* C8: when is_in_inconsistent_state returns true, the final guard does not hold,
\* no task's guard holds, and no worker is in the middle of executing a task.
InconsistencySound ==
    \A w \in Workers :
        pc[w] = "cs_release" /\ probe[w] = "inconsistent" /\ res[w]
        => Stuck /\ \A w2 \in Workers : ~Executing(w2)

\* is_in_inconsistent_state returns true with two workers, after a task ran
InconsistencySoundWitness ==
    \E w \in Workers :
        /\ pc[w] = "cs_release" /\ probe[w] = "inconsistent" /\ res[w]
        /\ n_threads = 2 /\ state # wedmakefile.config

\* The delta of worker w's task holds a variable that the task's guard does not
HasUndeclared(w) ==
    task[w] # 0 /\ ~(DOMAIN other_state[w].value \subseteq OnVariables(task[w]))

\* C9: when the delta of task T holds a variable that is not in T.on_variables,
\* an UndeclaredDependency naming such a variable and T is recorded, the worker
\* does not merge (no step of it changes the state, execute_task returns false),
\* and after the return it holds no lock.
UndeclaredFatal ==
    /\ [](\A w \in Workers :
            HasUndeclared(w)
            => /\ pc[w] \in {"execute_release", "sleep"}
               /\ ~res[w]
               /\ \E n \in 1..Len(exceptions) :
                    /\ exceptions[n].kind = "UndeclaredDependency"
                    /\ exceptions[n].task = tasks[task[w]].name
                    /\ exceptions[n].variable \in
                          DOMAIN other_state[w].value \ OnVariables(task[w])
               /\ (pc[w] = "sleep" => held(w) = {}))
    /\ [][\A w \in Workers :
            HasUndeclared(w)' /\ <<pc[w], i[w]>> # <<pc'[w], i'[w]>>
            => state' = state]_vars

\* execute_task has returned after a delta with an undeclared variable
UndeclaredFatalWitness ==
    \E w \in Workers : HasUndeclared(w) /\ pc[w] = "sleep" /\ n_threads = 2

\* C10 as stated: a stuck instance ends with InconsistentState recorded; so every
\* run that has ended in a stuck state has recorded it.
StuckDetectedAlways == AllDone /\ Stuck => Recorded("InconsistentState")

\* C10, amended: from a stuck state with no fatal error recorded, under fair
\* scheduling, InconsistentState is eventually recorded and every worker
\* eventually terminates.
StuckDetected ==
    (created /\ Stuck /\ exceptions = <<>>)
        ~> (Recorded("InconsistentState") /\ AllDone)

\* Two workers have terminated in a stuck state that the tasks led to, with
\* InconsistentState recorded
StuckDetectedWitness ==
    /\ AllDone /\ Stuck /\ n_threads = 2
    /\ Recorded("InconsistentState")
    /\ state # wedmakefile.config

\* The state satisfies the final guard, no task's guard holds, no worker is
\* executing a task and no error is recorded
FinalQuiescent ==
    /\ created
    /\ GuardHolds(wedmakefile.final_guard, state)
    /\ \A n \in 1..Len(tasks) : ~GuardHolds(tasks[n].guard, state)
    /\ \A w \in Workers : ~Executing(w)
    /\ exceptions = <<>>

\* C11: from a state that satisfies the final guard, with no task in flight, no
\* task's guard satisfied and no error recorded, under fair scheduling every
\* worker eventually leaves run and no error is recorded.
TerminatesAtFinal == FinalQuiescent ~> (AllDone /\ exceptions = <<>>)

\* Two workers have left run in a final state that the tasks of the parallel
\* experiment led to, both with the value True
TerminatesAtFinalWitness ==
    /\ FinalQuiescent /\ AllDone /\ n_threads = 2
    /\ experiment = "Parallel"
    /\ \A w \in Started : ret[w]

\* Worker w is between the start and the end of a task execution: it has taken
\* the task's locks and released _ei_lock, and has not begun to release the locks
TaskRunning(w) ==
    pc[w] \in {"execute_guard", "execute_body", "execute_merge", "execute_update"}

\* C12: when is_in_final_state returns true, the final guard is satisfied by the
\* state and no other worker is between the start and the end of a task
\* execution.
FinalProvesQuiescence ==
    \A w \in Workers :
        pc[w] = "cs_release" /\ probe[w] = "final" /\ res[w]
        => /\ GuardHolds(wedmakefile.final_guard, state)
           /\ \A w2 \in Workers \ {w} : ~TaskRunning(w2)

\* Worker w requests _ei_lock: it is at one of the three acquire() calls
RequestsEiLock(w) == pc[w] \in {"cs_acquire", "execute_acquire", "execute_merge"}

\* C13 as stated: no worker requests the coordination lock while it holds a
\* per-variable lock.
LockHierarchy == \A w \in Workers : RequestsEiLock(w) => held(w) = {}

\* C13, amended: a worker that requests the coordination lock at the entry of a
\* @CSDecorator method or of execute_task holds no per-variable lock; one that
\* requests it for the merge holds exactly the locks of its task's on_variables.
LockHierarchyButMerge ==
    \A w \in Workers :
        /\ pc[w] \in {"cs_acquire", "execute_acquire"} => held(w) = {}
        /\ pc[w] = "execute_merge" => held(w) = OnVariables(task[w])

\* A worker waits for the coordination lock, held by another, for its merge
\* while it holds the two locks of its task
LockHierarchyButMergeWitness ==
    \E w \in Workers :
        /\ pc[w] = "execute_merge" /\ Cardinality(held(w)) = 2
        /\ ei_lock \in Workers \ {w}

\* The place of an identifier in the lexicographic order
Index(id) == CHOOSE n \in 1..Len(IDENTIFIERS) : IDENTIFIERS[n] = id

\* Worker w takes the step
Actor(w) == <<pc[w], i[w]>> # <<pc'[w], i'[w]>>

\* Worker w is at an attempt on a variable lock, in a @CSDecorator method or in
\* execute_task
Trying(w) == pc[w] \in {"try_lock", "execute_try_lock"}

\* C14: a variable lock is only ever acquired by an attempt of one of the four
\* operations, made while the worker holds the coordination lock; the attempt
\* never waits; a lock it acquires is above, in the order of the identifiers,
\* every lock the worker holds; when the attempt fails, the worker's locks, which
\* are the ones it acquired before in this operation, are released, no other lock
\* changes, and the operation returns false.
OrderedTryLock ==
    /\ [](\A w \in Workers :
            Trying(w) => /\ ei_lock = w
                         /\ ENABLED Step(w)
                         /\ Cardinality(held(w)) = i[w])
    /\ [][\A w \in Workers :
            Actor(w) /\ Trying(w)
            => IF variable_locks[NextLock(w)] = Free
               THEN /\ variable_locks' = [variable_locks EXCEPT ![NextLock(w)] = w]
                    /\ \A h \in held(w) : Index(h) < Index(NextLock(w))
               ELSE /\ \A id \in DOMAIN variable_locks :
                        variable_locks'[id] =
                            IF id \in held(w) THEN Free ELSE variable_locks[id]
                    /\ ~res'[w]
                    /\ pc'[w] \in {"cs_release", "sleep"}]_vars
    /\ [][\A id \in DOMAIN variable_locks :
            variable_locks'[id] \in Workers /\ variable_locks'[id] # variable_locks[id]
            => /\ variable_locks[id] = Free
               /\ Trying(variable_locks'[id])
               /\ ei_lock = variable_locks'[id]]_vars

\* A worker that has acquired a lock in this operation is about to fail on the
\* next one, which another worker holds
OrderedTryLockWitness ==
    \E w \in Workers :
        /\ Trying(w) /\ i[w] >= 1
        /\ variable_locks[NextLock(w)] \in Workers \ {w}

\* C15 as stated: once a fatal error is recorded, no worker starts a task body.
NoBodyAfterError ==
    [][\A w \in Workers :
         exceptions # <<>> /\ pc[w] = "execute_guard" => pc'[w] # "execute_body"]_vars

\* C15, amended: a worker that evaluates the test of its loop after a fatal error
\* was recorded never starts a task body afterwards; with one worker no task
\* body starts after the recording at all.
NoBodyAfterErrorSeen ==
    /\ \A w \in Workers :
        [](pc[w] = "while_exceptions" /\ exceptions # <<>>
           => [](pc[w] # "execute_body"))
    /\ [][n_threads = 1 /\ exceptions # <<>>
          => \A w \in Workers : pc'[w] = "execute_body" => pc[w] = "execute_body"]_vars

\* With an error recorded, one worker has left its loop and another, past its
\* test, is about to start a task body
NoBodyAfterErrorSeenWitness ==
    /\ exceptions # <<>>
    /\ \E w \in Workers : at[w] = "return"
    /\ \E w \in Workers : pc[w] = "execute_guard" /\ GuardHolds(guard_of(w), state)

\* C16: a worker that evaluates the test of its loop after a fatal error was
\* recorded leaves the loop and enters no new step; under fair scheduling every
\* worker terminates once an error is recorded; and the error the instance
\* reports is, from the first recording on, the one recorded first.
DrainAfterError ==
    /\ \A w \in Workers :
        [](pc[w] = "while_exceptions" /\ exceptions # <<>>
           => [](pc[w] = "while_exceptions" \/ at[w] = "return"))
    /\ (exceptions # <<>>) ~> AllDone
    /\ [][exceptions # <<>> => reported' = <<exceptions[1]>>]_vars

\* Two workers have terminated after two errors were recorded
DrainAfterErrorWitness ==
    /\ AllDone /\ n_threads = 2
    /\ Len(exceptions) = 2
    /\ reported = <<exceptions[1]>>

\* Worker w's is_in_final_state has returned true: it is returning true now, or,
\* no error being recorded, the worker has left its loop (which it leaves only on
\* a true is_in_final_state or on a recorded error)
SawFinal(w) ==
    \/ pc[w] = "cs_release" /\ probe[w] = "final" /\ res[w]
    \/ at[w] = "return" /\ exceptions = <<>>

\* C17: once a worker's is_in_final_state has returned true, no step changes the
\* state and no step records an error.
FinalIsAbsorbing ==
    [][(\E w \in Workers : SawFinal(w))
       => state' = state /\ exceptions' = exceptions]_vars

\* What PyExperimentInstance.__init__ raises for the experiment: the place of
\* the dependency named by UnsatisfiedInitialGuard, or 0
UnsatisfiedInitialGuard ==
    first_unsatisfied(wedmakefile.initial_guard, wedmakefile.config)

\* C18: the instance is created iff the configuration satisfies every dependency
\* of the initial guard, an unbound variable counting as the empty string;
\* otherwise UnsatisfiedInitialGuard names the first dependency of the guard that
\* does not hold, and no worker ever runs: nothing of the instance changes.
InstantiationGate ==
    /\ created <=> GuardHolds(wedmakefile.initial_guard, wedmakefile.config)
    /\ created <=> UnsatisfiedInitialGuard = 0
    /\ ~created =>
        /\ UnsatisfiedInitialGuard \in 1..Len(wedmakefile.initial_guard)
        /\ ~Holds(wedmakefile.initial_guard[UnsatisfiedInitialGuard], wedmakefile.config)
        /\ \A n \in 1..(UnsatisfiedInitialGuard - 1) :
              Holds(wedmakefile.initial_guard[n], wedmakefile.config)
        /\ \A w \in Workers : pc[w] = "not_started"
        /\ state = wedmakefile.config /\ exceptions = <<>> /\ ei_lock = Free
        /\ \A id \in DOMAIN variable_locks : variable_locks[id] = Free

\* The instance is refused for the second of three dependencies, on a variable
\* the configuration does not bind, the third not holding either
InstantiationGateWitness ==
    /\ ~created
    /\ UnsatisfiedInitialGuard = 2
    /\ wedmakefile.initial_guard[2].var \notin DOMAIN wedmakefile.config.value
    /\ ~Holds(wedmakefile.initial_guard[3], wedmakefile.config)

\* C19 as stated: every run of the diamond ends in a final state with Z "x" or
\* "y" and no error.
DiamondReachesFinal ==
    experiment = "Diamond" /\ AllDone
    => /\ exceptions = <<>>
       /\ Get(state, "Z") \in {V("x"), V("y")}

\* The tasks named by the recorded errors
Failed == {exceptions[n].task : n \in 1..Len(exceptions)}

\* C19, amended: in the diamond, Z is in the guard of neither TX nor TY, so the
\* state never changes and never satisfies the final guard, every error recorded
\* is an UndeclaredDependency naming Z and TX or TY, and under fair scheduling
\* every run ends with such an error recorded and every worker terminated.
DiamondEndsUndeclared ==
    /\ [](experiment = "Diamond"
          => /\ state = wedmakefile.config
             /\ ~GuardHolds(wedmakefile.final_guard, state)
             /\ \A n \in 1..Len(exceptions) :
                  /\ exceptions[n].kind = "UndeclaredDependency"
                  /\ exceptions[n].variable = "Z"
                  /\ exceptions[n].task \in {"TX", "TY"})
    /\ (experiment = "Diamond") ~> (AllDone /\ Recorded("UndeclaredDependency"))

\* A run of the diamond with two workers has ended after both TX and TY ran
DiamondEndsUndeclaredWitness ==
    /\ experiment = "Diamond" /\ AllDone /\ n_threads = 2
    /\ Failed = {"TX", "TY"}

\* C20: a worker whose task body runs does not hold the coordination lock, and
\* holds none of the locks that another worker, acquiring the locks of a task
\* with disjoint on_variables, is about to try: one execution does not block the
\* other's acquisition, and two such bodies run at the same time.
ParallelIndependence ==
    /\ \A w \in Workers : pc[w] \in {"execute_guard", "execute_body"} => ei_lock # w
    /\ \A w1, w2 \in Workers :
        /\ pc[w1] = "execute_body" /\ pc[w2] = "execute_try_lock"
        /\ OnVariables(task[w1]) \cap OnVariables(task[w2]) = {}
        => variable_locks[NextLock(w2)] # w1

\* In the parallel experiment the body of TP and the body of TQ are running at
\* the same time, the coordination lock being free
ParallelIndependenceWitness ==
    /\ experiment = "Parallel" /\ n_threads = 2
    /\ \E w1, w2 \in Workers :
        /\ pc[w1] = "execute_body" /\ tasks[task[w1]].name = "TP"
        /\ pc[w2] = "execute_body" /\ tasks[task[w2]].name = "TQ"
    /\ ei_lock = Free

\* The variables whose values the guard evaluation of worker w reads: the guards
\* evaluated by the @CSDecorator method it is in (pc "evaluate"), or the guard of
\* its task for the evaluation of lines 401-407 (pc "execute_guard")
Reads(w) ==
    LET of(guard) == {guard[n].var : n \in 1..Len(guard)}
    IN  CASE pc[w] = "evaluate" /\ probe[w] = "final" -> of(wedmakefile.final_guard)
          [] pc[w] = "evaluate" /\ probe[w] = "inconsistent" ->
                of(wedmakefile.final_guard) \cup UNION {OnVariables(n) : n \in 1..Len(tasks)}
          [] pc[w] = "evaluate" /\ probe[w] = "ready" -> OnVariables(task[w])
          [] pc[w] = "execute_guard" -> OnVariables(task[w])
          [] OTHER -> {}

\* Worker w has the delta of its task and has not merged it yet: the merge is
\* pending (it waits for _ei_lock) or in progress (it holds it)
Merging(w) == pc[w] \in {"execute_merge", "execute_update"}

\* C21: a guard evaluation of the three probes or of the re-check inside
\* execute_task reads no variable of a delta that another worker is about to
\* merge or is merging: every variable it reads is locked by the evaluating
\* worker, and every variable of the delta by the merging one, so each value
\* read is the one before the whole merge or the one after it.
MergeAtomicToObservers ==
    \A w1, w2 \in Workers :
        w1 # w2 /\ Merging(w2)
        => /\ Reads(w1) \cap DOMAIN other_state[w2].value = {}
           /\ \A id \in Reads(w1) : variable_locks[id] = w1
           /\ \A id \in DOMAIN other_state[w2].value : variable_locks[id] = w2

\* A worker evaluates the guard of one task of the parallel experiment while the
\* other worker has the delta of the other task to merge
MergeAtomicToObserversWitness ==
    \E w1, w2 \in Workers :
        /\ w1 # w2 /\ Merging(w2) /\ DOMAIN other_state[w2].value # {}
        /\ Reads(w1) # {}

\* C22: every evaluation of a guard returns a truth value, and the value is true
\* iff every dependency of the guard holds by the clause table: equality iff the
\* value of the variable is the literal, inequality iff it is not, membership iff
\* it is one of the listed literals, no-membership iff it is none of them, the
\* value of an unbound variable being the empty string.
ClauseTable ==
    /\ call.pc # "raised"
    /\ call.pc = "returned" => (call.res <=> GuardHolds(call.clauses, call.ei_state))

\* C23: a Guard is constructed only from 1 to 256 dependencies: the construction
\* of a guard of no dependency, or of more than 256, raises SyntaxError, and such
\* a guard is never evaluated.
GuardSizeBound ==
    /\ call.pc \in {"guard", "returned", "raised"}
        => Len(call.clauses) \in 1..MAX_DEPENDENCIES
    /\ call.pc = "SyntaxError" => Len(call.clauses) \notin 1..MAX_DEPENDENCIES

\* The command has ended: the instance was refused, or every worker has returned
Ended == ~created \/ AllDone

\* C24: when the command has ended, its exit status is 0 iff the instance was
\* created and ended in a final state with no error recorded; it is not 0 when
\* the instantiation failed or an error (TaskExecutionError, InconsistentState,
\* ...) was recorded.
ExitStatusReflectsOutcome ==
    Ended => (exit_code = 0 <=> created /\ exceptions = <<>>
                                 /\ GuardHolds(wedmakefile.final_guard, state))

\* Worker w is inside execute_task with every lock of its task acquired and its
\* delta, if any, not merged yet
Isolated(w) ==
    pc[w] \in {"execute_unlock", "execute_guard", "execute_body", "execute_merge",
               "execute_update"}

\* C25: the body of a task runs only with the task's guard satisfied by the state
\* after the task's locks were acquired; a stale readiness makes execute_task
\* return False with the state unchanged and the locks released.  From the
\* acquisition to the worker's own merge no step changes the binding of a
\* variable of the task's on_variables, so the guard holds as long as the body
\* runs and until the merge, and the delta merged is the one the body yields from
\* the values that are in the state when it is merged.
TaskIsolation ==
    /\ [](\A w \in Workers :
            pc[w] \in {"execute_body", "execute_merge", "execute_update"}
            => /\ GuardHolds(guard_of(w), state)
               /\ \A id \in OnVariables(task[w]) : variable_locks[id] = w)
    /\ [](\A w \in Workers :
            pc[w] \in {"execute_merge", "execute_update"}
            => \E bash_script \in tasks[task[w]].bash :
                 LET out == from_bash_script(guard_of(w), bash_script, state)
                 IN  out.ok /\ out.st = other_state[w])
    /\ [][\A w \in Workers :
            Isolated(w) /\ ~(pc[w] = "execute_update" /\ pc'[w] # "execute_update")
            => \A id \in OnVariables(task[w]) : Binding(state', id) = Binding(state, id)]_vars
    /\ [][\A w \in Workers :
            pc[w] = "execute_guard" /\ pc'[w] # "execute_guard"
            /\ ~GuardHolds(guard_of(w), state)
            => pc'[w] = "execute_release" /\ ~res'[w] /\ state' = state]_vars
    /\ [][\A w \in Workers :
            pc[w] = "execute_release" /\ pc'[w] = "sleep"
            => held(w) = {} /\ state' = state]_vars

\* The readiness of a worker's task has become stale: the worker holds the locks
\* of the task, another worker has merged in between, and the guard is no longer
\* satisfied
TaskIsolationWitness ==
    \E w \in Workers :
        /\ pc[w] = "execute_guard"
        /\ OnVariables(task[w]) # {}
        /\ \A id \in OnVariables(task[w]) : variable_locks[id] = w
        /\ ~GuardHolds(guard_of(w), state)
        /\ state # wedmakefile.config

\* Worker w's is_in_inconsistent_state is about to return res[w]; the state has
\* not changed since the call acquired _ei_lock
InconsistentReturns(w) == pc[w] = "cs_release" /\ probe[w] = "inconsistent"

\* C26 as stated: with any number of workers, is_in_inconsistent_state called in
\* a state that satisfies neither the final guard nor the guard of any task
\* returns true.
InconsistencyComplete ==
    \A w \in Workers : InconsistentReturns(w) /\ Stuck => res[w]

\* C26, amended: is_in_inconsistent_state called in such a state returns true if
\* it acquires every variable lock, and with one worker it always does; it
\* returns false only by a try-lock that fails, on a lock held by another worker
\* that is inside execute_task between the acquisition of its task's locks and
\* their release.
InconsistencyCompleteUnlessLocked ==
    /\ [](n_threads = 1 => InconsistencyComplete)
    /\ [][\A w \in Workers :
            pc[w] = "evaluate" /\ probe[w] = "inconsistent" /\ pc'[w] = "cs_release"
            /\ Stuck
            => res'[w]]_vars
    /\ [][\A w \in Workers :
            pc[w] = "try_lock" /\ probe[w] = "inconsistent" /\ pc'[w] = "cs_release"
            => /\ ~res'[w]
               /\ \E w2 \in Workers \ {w} :
                    /\ variable_locks[NextLock(w)] = w2
                    /\ NextLock(w) \in OnVariables(task[w2])
                    /\ pc[w2] \in {"execute_guard", "execute_body", "execute_merge",
                                   "execute_release"}]_vars

\* With two workers, is_in_inconsistent_state has acquired every lock in a state
\* that satisfies no guard and returns true, the other worker having run
InconsistencyCompleteUnlessLockedWitness ==
    \E w \in Workers :
        /\ InconsistentReturns(w) /\ Stuck /\ res[w]
        /\ n_threads = 2
        /\ \E w2 \in Workers \ {w} : pc[w2] \notin {"not_started", "cs_acquire"}

\* C27: once InconsistentState is recorded, the state satisfies no guard, no
\* worker (the one that recorded it included) starts the body of a task, and no
\* step changes the state.
InconsistentEndsStep ==
    /\ [](Recorded("InconsistentState") => Stuck)
    /\ [][Recorded("InconsistentState")
          => /\ state' = state
             /\ \A w \in Workers : pc'[w] = "execute_body" => pc[w] = "execute_body"]_vars
    /\ [][\A w \in Workers :
            pc[w] = "record_inconsistent" /\ pc'[w] # "record_inconsistent"
            => Recorded("InconsistentState")' /\ Len(exceptions') = Len(exceptions) + 1]_vars

\* After InconsistentState was recorded, a worker executes a task it found ready
\* before: it holds the locks of the task and is about to evaluate the guard again
InconsistentEndsStepWitness ==
    /\ Recorded("InconsistentState")
    /\ \E w \in Workers : pc[w] = "execute_guard" /\ OnVariables(task[w]) # {}

\* The scripts of the task of worker w whose run makes the task runner raise in
\* the current state
Failing(w) ==
    {bash_script \in tasks[task[w]].bash :
        ~from_bash_script(guard_of(w), bash_script, state).ok}

\* The TaskExecutionError that names the task of worker w
TaskExecutionError(w) == RuntimeError("TaskExecutionError", tasks[task[w]].name, "")

\* C28: when the task runner raises in execute_task(T), a TaskExecutionError
\* naming T is appended to the recorded errors, the worker merges nothing (no step
\* of it changes the state from the body to the return), it releases the locks of
\* T and execute_task returns False; a TaskExecutionError is recorded for no
\* other reason.
RunnerFailureContained ==
    /\ [][\A w \in Workers :
            pc[w] = "execute_body" /\ pc'[w] # "execute_body"
            /\ Failing(w) = tasks[task[w]].bash
            => /\ exceptions' = Append(exceptions, TaskExecutionError(w))
               /\ pc'[w] = "execute_release" /\ ~res'[w]
               /\ state' = state /\ other_state' = other_state
               /\ held(w)' = held(w)]_vars
    /\ [][\A w \in Workers :
            pc[w] = "execute_body" /\ pc'[w] # "execute_body"
            /\ Len(exceptions') > Len(exceptions)
            /\ exceptions'[Len(exceptions')].kind = "TaskExecutionError"
            => /\ Failing(w) # {}
               /\ exceptions' = Append(exceptions, TaskExecutionError(w))
               /\ pc'[w] = "execute_release" /\ ~res'[w]
               /\ state' = state]_vars
    /\ [][\A w \in Workers :
            pc[w] = "execute_release" /\ Actor(w)
            => /\ state' = state /\ exceptions' = exceptions /\ res'[w] = res[w]
               /\ (pc'[w] = "sleep" => held(w)' = {})]_vars
    /\ [][\A n \in 1..Len(exceptions) :
            Len(exceptions') >= Len(exceptions) /\ exceptions'[n] = exceptions[n]]_vars

\* The runner has raised in the task of a worker: the error naming the task is
\* the last one recorded, and the worker, which still holds the locks of the
\* task, is about to release them and to return False
RunnerFailureContainedWitness ==
    \E w \in Workers :
        /\ pc[w] = "execute_release" /\ i[w] = 0 /\ ~res[w]
        /\ held(w) = OnVariables(task[w]) /\ held(w) # {}
        /\ exceptions # <<>>
        /\ exceptions[Len(exceptions)] = TaskExecutionError(w)
        /\ state = wedmakefile.config

\* Worker w is inside one of the three @CSDecorator methods, past the
\* acquisition of _ei_lock
InProbe(w) == pc[w] \in {"try_lock", "evaluate", "cs_release"}

\* C29: a call of is_in_final_state, is_in_inconsistent_state or
\* is_ready_to_execute_task starts with no variable lock held by the caller; no
\* step taken while the call holds _ei_lock changes the state, and no step of the
\* call records an error or touches a lock that another worker holds; when the
\* call returns, true or false, the caller holds no variable lock again and
\* _ei_lock is free.
ProbeFrame ==
    /\ [](\A w \in Workers :
            /\ pc[w] \in {"cs_acquire", "cs_release"} => held(w) = {}
            /\ InProbe(w) => ei_lock = w)
    /\ [][\A w \in Workers : InProbe(w) => state' = state]_vars
    /\ [][\A w \in Workers :
            InProbe(w) /\ Actor(w)
            => /\ exceptions' = exceptions
               /\ \A id \in DOMAIN variable_locks :
                    variable_locks'[id] # variable_locks[id]
                    => {variable_locks[id], variable_locks'[id]} = {Free, w}]_vars
    /\ [][\A w \in Workers :
            pc[w] = "cs_release" /\ pc'[w] # "cs_release"
            => ei_lock' = Free /\ held(w)' = {} /\ variable_locks' = variable_locks]_vars

\* is_ready_to_execute_task is about to return False for a task of two variables
\* after a try-lock that failed: the other worker holds one lock of the task, the
\* other lock of the task is free, and the caller holds none
ProbeFrameWitness ==
    \E w \in Workers :
        /\ pc[w] = "cs_release" /\ probe[w] = "ready" /\ ~res[w]
        /\ Cardinality(OnVariables(task[w])) >= 2
        /\ \E id \in OnVariables(task[w]) : variable_locks[id] \notin {Free, w}
        /\ \E id \in OnVariables(task[w]) : variable_locks[id] = Free

\* Worker w is in a lock-acquisition phase: from its first attempt on a variable
\* lock to the release of _ei_lock that ends the probe, or that precedes the
\* re-check of execute_task
Acquiring(w) ==
    pc[w] \in {"try_lock", "evaluate", "cs_release", "execute_try_lock", "execute_unlock"}

\* C30: a worker in a lock-acquisition phase holds _ei_lock, so at most one
\* worker at a time is in such a phase; and an attempt on a variable lock, in a
\* probe or in execute_task, fails only on a lock held by another worker that is
\* inside execute_task, past its own acquisition phase, for a task that has the
\* variable in its on_variables.
AcquisitionSerialised ==
    /\ [](\A w \in Workers : Acquiring(w) => ei_lock = w)
    /\ [](\A w1, w2 \in Workers : Acquiring(w1) /\ Acquiring(w2) => w1 = w2)
    /\ [](\A w \in Workers, id \in DOMAIN variable_locks :
            variable_locks[id] = w /\ ei_lock # w
            => /\ pc[w] \in {"execute_guard", "execute_body", "execute_merge",
                             "execute_release"}
               /\ id \in OnVariables(task[w]))
    /\ [][\A w \in Workers :
            Trying(w) /\ pc'[w] \in {"cs_release", "sleep"}
            => \E w2 \in Workers \ {w} :
                 /\ variable_locks[NextLock(w)] = w2
                 /\ NextLock(w) \in OnVariables(task[w2])
                 /\ pc[w2] \in {"execute_guard", "execute_body", "execute_merge",
                                "execute_release"}]_vars

\* An attempt of execute_task on a variable lock is about to fail: the lock is
\* held by the other worker, whose task body is running
AcquisitionSerialisedWitness ==
    \E w, w2 \in Workers :
        /\ pc[w] = "execute_try_lock"
        /\ variable_locks[NextLock(w)] = w2
        /\ pc[w2] = "execute_body"

\* C31: a worker that left the loop of run because is_in_final_state returned
\* true (no error being recorded, the loop is left in no other way) returns True
\* from run.
FinalObservationReturnsTrue ==
    \A w \in Workers : pc[w] = "done" /\ exceptions = <<>> => ret[w]

\* Variable.namespace: the identifier up to its last underscore, the empty string
\* when it holds none. No identifier of the experiments holds an underscore.
namespace(identifier) == ""

\* The namespaces of the variables of the guard of task n
Namespaces(n) == {namespace(id) : id \in OnVariables(n)}

\* is_ready_to_execute_task is about to return True to worker w
ReadyReturnsTrue(w) == pc[w] = "cs_release" /\ probe[w] = "ready" /\ res[w]

Succeeding(w) ==
    \/ pc[w] \in {"execute_merge", "execute_update"}
    \/ pc[w] = "execute_release" /\ res[w]

\* The variables of the delta of worker w
Delta(w) == DOMAIN other_state[w].value

\* C33 as stated, second half: from the call of an execute_task that returns True
\* with delta D to its return, no variable outside D changes its value or its
\* permission.
MergeFrameSinceCall ==
    [][\A w \in Workers :
         Succeeding(w) =>
             \A k \in Ids \ Delta(w) : Binding(state', k) = Binding(state, k)]_vars

\* C33 as stated, first half: when execute_task is about to return True with delta
\* D, every variable of D has in the state the value and the permission of D.
MergeVisibleAtReturn ==
    \A w \in Workers :
        pc[w] = "execute_release" /\ res[w] =>
            \A k \in Delta(w) : Binding(state, k) = Binding(other_state[w], k)

\* C33: the merge of an execute_task that returns True with delta D gives every
\* variable of D the value and the permission of D and leaves the value and the
\* permission of every other variable as they were just before the merge.
MergeEffect ==
    [][\A w \in Workers :
         pc[w] = "execute_update" /\ pc'[w] = "execute_release" =>
             /\ res[w]
             /\ \A k \in Delta(w) : Binding(state', k) = Binding(other_state[w], k)
             /\ \A k \in Ids \ Delta(w) : Binding(state', k) = Binding(state, k)]_vars

\* A merge has changed a variable of a state that binds another variable too, and
\* execute_task is about to return True
MergeEffectWitness ==
    \E w \in Workers :
        /\ pc[w] = "execute_release" /\ res[w] /\ i[w] = 0
        /\ \E k \in Delta(w) : Binding(state, k) # Binding(wedmakefile.config, k)
        /\ \E k \in DOMAIN state.value : k \notin Delta(w)

\* The workers inside execute_task for a task that has v in its on_variables,
\* past the acquisition and before the last release of lines 481-482
Inside(v) == {w \in Workers : Executing(w) /\ v \in OnVariables(task[w])}

\* The workers inside execute_task, past the acquisition, for a task that has v
\* in its on_variables and has not released the lock of v yet: the loop of lines
\* 481-482 releases the locks one at a time, in the order of on_variables
BeforeRelease(v) ==
    {w \in Inside(v) :
        pc[w] = "execute_release" =>
            \E n \in (i[w] + 1)..Len(on_variables(guard_of(w))) :
                on_variables(guard_of(w))[n] = v}

\* No worker releases a lock that it does not hold: a lock that becomes free was
\* held by the worker that takes the step
ReleasesOwn ==
    \A v \in DOMAIN variable_locks :
        variable_locks[v] # Free /\ variable_locks'[v] = Free
        => \E w \in Workers : variable_locks[v] = w /\ Actor(w)

\* C34 as stated: when _ei_lock is free, the lock of v is held if and only if
\* exactly one worker is inside execute_task, past its acquisition and before its
\* final release, for a task with v in its on_variables; and no worker releases a
\* lock that it does not hold.
LockOwnership ==
    /\ [](ei_lock = Free =>
            \A v \in DOMAIN variable_locks :
                variable_locks[v] # Free <=> Cardinality(Inside(v)) = 1)
    /\ [][ReleasesOwn]_vars

\* C34: when _ei_lock is free, the lock of v is held if and only if exactly one
\* worker is inside execute_task, past its acquisition and before its release of
\* the lock of v, for a task with v in its on_variables, and that worker holds
\* it; and no worker releases a lock that it does not hold.
LockOwnershipPerLock ==
    /\ [](ei_lock = Free =>
            \A v \in DOMAIN variable_locks :
                /\ variable_locks[v] # Free <=> Cardinality(BeforeRelease(v)) = 1
                /\ \A w \in BeforeRelease(v) : variable_locks[v] = w)
    /\ [][ReleasesOwn]_vars

\* _ei_lock is free and a worker in the release loop of a task of two variables
\* has released the lock of the first and holds the lock of the second
LockOwnershipPerLockWitness ==
    /\ ei_lock = Free
    /\ \E w \in Workers :
        /\ pc[w] = "execute_release" /\ i[w] = 1
        /\ Len(on_variables(guard_of(w))) = 2
        /\ variable_locks[on_variables(guard_of(w))[1]] = Free
        /\ variable_locks[on_variables(guard_of(w))[2]] = w

\* Worker w is in a task execution that has not merged yet: from the call of
\* execute_task to the merge of line 479
BeforeMerge(w) ==
    pc[w] \in {"execute_acquire", "execute_try_lock", "execute_unlock", "execute_guard",
               "execute_body", "execute_merge", "execute_update"}

\* C35: with one worker, no task body is started in a state that satisfies
\* final_guard, and once a merge has made final_guard true the state is never
\* changed again and no task is executed: in a state that satisfies final_guard
\* the worker is in no task execution that has still to merge, and no step from
\* such a state starts one or changes the state.
SingleWorkerStopsAtFinal ==
    /\ [](n_threads = 1 /\ created /\ GuardHolds(wedmakefile.final_guard, state)
            => \A w \in Workers : ~BeforeMerge(w))
    /\ [][n_threads = 1 /\ created /\ GuardHolds(wedmakefile.final_guard, state)
            => /\ state' = state
               /\ \A w \in Workers : ~BeforeMerge(w)']_vars

\* The one worker of a run has just merged the delta that makes final_guard
\* true, which the state at the start did not satisfy, and the guard of a task
\* holds in the new state
SingleWorkerStopsAtFinalWitness ==
    /\ n_threads = 1 /\ created
    /\ pc[1] = "execute_release" /\ res[1]
    /\ GuardHolds(wedmakefile.final_guard, state)
    /\ ~GuardHolds(wedmakefile.final_guard, wedmakefile.config)
    /\ \E n \in 1..Len(tasks) : GuardHolds(tasks[n].guard, state)

\* No fatal error is recorded, the state does not satisfy final_guard and the
\* guard of some task is satisfied by the state
Enabled ==
    /\ created
    /\ exceptions = <<>>
    /\ ~GuardHolds(wedmakefile.final_guard, state)
    /\ \E n \in 1..Len(tasks) : GuardHolds(tasks[n].guard, state)

\* A task body is executed: a worker is at the body of a task, or has run it and
\* has its delta to merge into the state
BodyExecuted == \E w \in Workers : pc[w] = "execute_body" \/ Merging(w)

\* C36: under fair scheduling, from a state with no fatal error recorded that does
\* not satisfy final_guard and satisfies the guard of some task, a task body is
\* eventually executed.
Progress == Enabled ~> BodyExecuted

\* Two workers, no error, the guard of a task holds and the final guard does not,
\* and a try-lock of execute_task is about to fail on a lock the other worker
\* holds while no body is being executed
ProgressWitness ==
    /\ Enabled /\ ~BodyExecuted /\ n_threads = 2
    /\ \E w \in Workers :
        /\ pc[w] = "execute_try_lock"
        /\ variable_locks[NextLock(w)] \in Workers \ {w}

=============================================================================
